---- MODULE Spec2Model ----
(***************************************************************************)
(* A model of the failure-injection decision engine, the request pipeline  *)
(* and the behavioral analytics core of ai-agents-failure-recovery.        *)
(*                                                                         *)
(* Probabilities and random draws are integers in units of 1/10000, so     *)
(* that 0.3 is 3000 and a draw of random.random() lies in 0..9999.         *)
(***************************************************************************)
EXTENDS Integers, Sequences, FiniteSets, TLC

\* ------------------------------------------------------------------ bounds
MaxTicks == 3
MaxMessages == 2
MaxRequests == 1
MaxTracked == 11
MaxInteractions == 11
MaxBatch == 11
MaxInteractionCount == 12
MaxElapses == 2
MaxResponses == 5
MaxInjections == 2
MaxMeasured == 3
MaxDriftBehaviors == 5
MaxFlowBehaviors == 3

\* --------------------------------------------------------------- constants
TickStep == 15
StartTime == 1000
CooldownSeconds == 30
NoTime == -1
Unit == 10000
DrawHigh == 9999
PoolSize == 4
ResponseCap == 10
DefaultBehaviorCount == 10
DefaultResponseCount == 5
DefaultMinInteractions == 10
DefaultUpdateFrequencyHours == 6
SecondsPerHour == 3600
ElapseHours == 3
MinForDrift == 4
MinForPatterns == 3
MinForStatistics == 3
MinForLoops == 3
MinRecentForDrift == 2
DefaultTimeWindowHours == 24
FullDataBehaviors == 20
FullEngagementLength == 200
RecencyHours == 24
HighScoreThreshold == 8000
LowConfidenceThreshold == 5000
DriftThreshold == 8000
AnomalyThreshold == 7000
TimeoutRangeLow == 5
TimeoutRangeHigh == 15

Sessions == {"s1", "s2"}
\* The sessions the injector is called for.
InjSessions == {"s1"}
NoMode == "none"

\* FailureMode, in the declaration order of the failure_scenarios catalog.
ModeOrder ==
  << "hallucination", "incorrect_reasoning", "off_topic",
     "infinite_loop", "refusing_progress",
     "api_timeout", "auth_error", "service_unavailable",
     "token_limit", "memory_exhaustion", "rate_limiting" >>

Modes == {ModeOrder[i] : i \in 1..Len(ModeOrder)}

\* failure_scenarios[mode]["type"]
FailureTypeOf(m) ==
  CASE m \in {"hallucination", "incorrect_reasoning", "off_topic"} -> "output_quality"
    [] m \in {"infinite_loop", "refusing_progress"} -> "behavioral"
    [] m \in {"api_timeout", "auth_error", "service_unavailable"} -> "integration"
    [] m \in {"token_limit", "memory_exhaustion", "rate_limiting"} -> "resource"

\* failure_scenarios[mode]["probability"], in units of 1/10000.
BaseProbability(m) ==
  CASE m = "hallucination" -> 3000
    [] m = "incorrect_reasoning" -> 2500
    [] m = "off_topic" -> 2000
    [] m = "infinite_loop" -> 2000
    [] m = "refusing_progress" -> 1500
    [] m = "api_timeout" -> 1000
    [] m = "auth_error" -> 800
    [] m = "service_unavailable" -> 1200
    [] m = "token_limit" -> 500
    [] m = "memory_exhaustion" -> 300
    [] m = "rate_limiting" -> 700

\* The values failure_rate_multiplier is configured with in the model.
Multipliers == {0, 1, 4}

\* One draw of random.random() per catalogued mode: the model's streams of
\* draws are DrawHigh everywhere, or everywhere but in one place.
LowDraws == {0, 1000}
AllHigh == [i \in 1..Len(ModeOrder) |-> DrawHigh]
DrawStreams ==
  {AllHigh} \cup { [AllHigh EXCEPT ![i] = d] : i \in 1..Len(ModeOrder), d \in LowDraws }

\* The draws of the concurrent tasks: no draw succeeds, or the first one does.
TaskDraws == {AllHigh, [AllHigh EXCEPT ![1] = 0]}

\* The streams whose low draw, if any, is 0.
SureDrawStreams ==
  {AllHigh} \cup { [AllHigh EXCEPT ![i] = 0] : i \in 1..Len(ModeOrder) }

Clock == {StartTime + k * TickStep : k \in 0..MaxTicks}

VARIABLES
  now,                      \* time.time()
  probabilistic_mode,       \* FailureInjector.probabilistic_mode
  failure_rate_multiplier,  \* FailureInjector.failure_rate_multiplier
  session_states,           \* FailureInjector.session_states
  inj_call,                 \* the last injector call and what it returned
  last_selected,            \* per session: time of the last probabilistic selection
  reset_since,              \* per session: reset_session_state ran since that selection
  redis,                    \* the Redis keys of StateManager, per session
  db_count,                 \* agent_interactions: the number of committed rows
  requests,                 \* agent_requests_total: the calls of process_request
  agent_call,               \* the last process_request call and how it ended
  session_behaviors,        \* InteractionTracker.session_behaviors
  session_responses,        \* InteractionTracker.session_responses
  appended,                 \* history: per session, the texts tracked since the last clear
  supplied,                 \* history: per session, the latencies tracked since the last clear
  baselines,                \* BaselineManager.baselines
  min_interactions,         \* BaselineManager.min_interactions
  update_frequency_hours,   \* BaselineManager.update_frequency_hours
  monitoring,               \* BehavioralMonitoringService: which sinks are in use
  monitor_call,             \* the last process_interaction call and what it returned
  baseline_call,            \* the last BaselineManager call and what it returned
  anomaly_call,             \* a detect_anomalies call: what the detectors found, the result
  loop_call,                \* a detect_response_loops call: the responses, the result
  inject_call,              \* an inject_integration_failure call: where it is, how it ended
  deviation_call,           \* detect_deviation calls: baseline, behaviors, the results
  metrics_call,             \* the last get_session_metrics call and what it returned
  drift_call,               \* a drift detection call: the behaviors, the window, the result
  race,                     \* two threads inside track_interaction: where each is, what it read
  tasks,                    \* process_request tasks of one session on one event loop
  flow_call                 \* an analyze_conversation_flow call: the behaviors, the result

injVars == << probabilistic_mode, failure_rate_multiplier, session_states,
              inj_call, last_selected, reset_since >>

agentVars == << redis, db_count, requests, agent_call >>

trackerVars == << session_behaviors, session_responses, appended, supplied >>

baselineVars == << baselines, min_interactions, update_frequency_hours, baseline_call >>

monitorVars == << monitoring, monitor_call >>

analysisVars == << anomaly_call, loop_call >>

concurrencyVars == << race, tasks >>

probeVars == << inject_call, deviation_call, metrics_call, drift_call, concurrencyVars,
               flow_call >>

behaviorVars == << trackerVars, baselineVars, monitorVars, analysisVars, probeVars >>

vars == << now, injVars, agentVars, behaviorVars >>

\* ------------------------------------------------------- FailureInjector

\* The state _evaluate_probabilistic_failure creates for an unknown session.
FreshSessionState ==
  [ failure_count |-> 0, last_failure_time |-> NoTime, last_failure_mode |-> NoMode,
    clarification_requests |-> 0, message_count |-> 0 ]

\* Python truthiness of session_state["last_failure_time"]: None and 0 are false.
Truthy(t) == t # NoTime /\ t # 0

\* A mutant of InCooldown: the comparison turned around.
InCooldownFlipped(st, t) ==
  Truthy(st.last_failure_time) /\ t - st.last_failure_time > CooldownSeconds

\* The cooldown test of _evaluate_probabilistic_failure.
InCooldown(st, t) ==
  Truthy(st.last_failure_time) /\ t - st.last_failure_time < CooldownSeconds

\* A mutant of AdjustedProbability: the mode injected last is not damped.
AdjustedProbabilityUndamped(m, st) ==
  LET base == BaseProbability(m) * failure_rate_multiplier
  IN  IF m = "infinite_loop" /\ st.clarification_requests >= 1
      THEN base * 2 ELSE base

\* adjusted_probability of one mode for a session state.
AdjustedProbability(m, st) ==
  LET base == BaseProbability(m) * failure_rate_multiplier
      loop == IF m = "infinite_loop" /\ st.clarification_requests >= 1
              THEN base * 2 ELSE base
  IN  IF st.last_failure_mode = m THEN (loop * 3) \div 10 ELSE loop

\* A mutant of RollFrom: the last mode whose draw succeeds is the one selected.
RECURSIVE RollFromLast(_, _, _)
RollFromLast(i, st, draws) ==
  IF i > Len(ModeOrder) THEN 0
  ELSE IF RollFromLast(i + 1, st, draws) # 0 THEN RollFromLast(i + 1, st, draws)
  ELSE IF draws[i] < AdjustedProbability(ModeOrder[i], st) THEN i
  ELSE 0

\* The for-loop over failure_scenarios: the index of the first mode whose draw
\* is below its adjusted probability, 0 if there is none.
RECURSIVE RollFrom(_, _, _)
RollFrom(i, st, draws) ==
  IF i > Len(ModeOrder) THEN 0
  ELSE IF draws[i] < AdjustedProbability(ModeOrder[i], st) THEN i
  ELSE RollFrom(i + 1, st, draws)

\* A mutant of Selected: another mode leaves the clarification requests alone.
SelectedKeepingClarifications(st, m, t) ==
  [ st EXCEPT !.failure_count = @ + 1,
              !.last_failure_time = t,
              !.last_failure_mode = m,
              !.clarification_requests = IF m = "infinite_loop" THEN @ + 1 ELSE @ ]

\* A mutant of Selected: every selected mode counts as a clarification request.
SelectedCountingEveryMode(st, m, t) ==
  [ st EXCEPT !.failure_count = @ + 1,
              !.last_failure_time = t,
              !.last_failure_mode = m,
              !.clarification_requests = @ + 1 ]

\* The session state after mode m was selected at time t.
Selected(st, m, t) ==
  [ st EXCEPT !.failure_count = @ + 1,
              !.last_failure_time = t,
              !.last_failure_mode = m,
              !.clarification_requests = IF m = "infinite_loop" THEN @ + 1 ELSE 0 ]

\* _evaluate_probabilistic_failure: the session state it leaves and the index of
\* the mode it returns (0: (False, None)).
EvalState(s) ==
  LET st0 == IF s \in DOMAIN session_states THEN session_states[s] ELSE FreshSessionState
  IN  [st0 EXCEPT !.message_count = @ + 1]

EvalPick(s, draws) ==
  LET st == EvalState(s)
  IN  IF InCooldown(st, now) THEN 0 ELSE RollFrom(1, st, draws)

\* The calls of random.random() the for-loop makes from mode i on: one per mode
\* tried, the selected one being the last.
RECURSIVE DrawsFrom(_, _, _)
DrawsFrom(i, st, draws) ==
  IF i > Len(ModeOrder) THEN 0
  ELSE IF draws[i] < AdjustedProbability(ModeOrder[i], st) THEN 1
  ELSE 1 + DrawsFrom(i + 1, st, draws)

\* The calls of random.random() of one evaluation: none during the cooldown.
EvalDrawn(s, draws) ==
  LET st == EvalState(s)
  IN  IF InCooldown(st, now) THEN 0 ELSE DrawsFrom(1, st, draws)

SetState(s, st) ==
  [t \in DOMAIN session_states \cup {s} |-> IF t = s THEN st ELSE session_states[t]]

CallRecord(s, forced, via, k) ==
  [ op |-> "should_inject", session |-> s, forced |-> forced, via |-> via,
    inject |-> (via = "forced" \/ k # 0),
    mode |-> IF via = "forced" THEN forced ELSE IF k # 0 THEN ModeOrder[k] ELSE NoMode,
    at |-> now, prev |-> last_selected[s], reset_between |-> reset_since[s],
    drawn |-> 0, probability |-> 0 ]

\* The record of a probabilistic evaluation: the number of calls of
\* random.random() it made, and the adjusted_probability of the mode it selected
\* (the "probability" of its log line), 0 if it selected none.
EvaluationRecord(s, draws) ==
  LET st == EvalState(s)
      k == EvalPick(s, draws)
  IN  [ CallRecord(s, NoMode, "probabilistic", k) EXCEPT
          !.drawn = EvalDrawn(s, draws),
          !.probability = IF k = 0 THEN 0 ELSE AdjustedProbability(ModeOrder[k], st) ]

\* A mutant of ShouldInjectFailure: a forced mode is recorded in the session
\* state like a selected one.
ShouldInjectFailureForcedRecorded(s, forced, draws) ==
  IF forced # NoMode
  THEN /\ inj_call' = CallRecord(s, forced, "forced", 0)
       /\ session_states' = SetState(s, Selected(EvalState(s), forced, now))
       /\ UNCHANGED << last_selected, reset_since >>
  ELSE IF probabilistic_mode
  THEN LET st == EvalState(s)
           k == EvalPick(s, draws)
       IN  /\ st.message_count <= MaxMessages
           /\ session_states' =
                SetState(s, IF k = 0 THEN st ELSE Selected(st, ModeOrder[k], now))
           /\ inj_call' = EvaluationRecord(s, draws)
           /\ last_selected' = IF k = 0 THEN last_selected
                               ELSE [last_selected EXCEPT ![s] = now]
           /\ reset_since' = IF k = 0 THEN reset_since
                             ELSE [reset_since EXCEPT ![s] = FALSE]
  ELSE /\ inj_call' = CallRecord(s, NoMode, "default", 0)
       /\ UNCHANGED << session_states, last_selected, reset_since >>

\* A mutant of ShouldInjectFailure: the probabilistic evaluation is consulted
\* before the forced mode.
ShouldInjectFailureProbabilisticFirst(s, forced, draws) ==
  IF probabilistic_mode
  THEN LET st == EvalState(s)
           k == EvalPick(s, draws)
       IN  /\ st.message_count <= MaxMessages
           /\ session_states' =
                SetState(s, IF k = 0 THEN st ELSE Selected(st, ModeOrder[k], now))
           /\ inj_call' = [CallRecord(s, NoMode, "probabilistic", k) EXCEPT !.forced = forced]
           /\ last_selected' = IF k = 0 THEN last_selected
                               ELSE [last_selected EXCEPT ![s] = now]
           /\ reset_since' = IF k = 0 THEN reset_since
                             ELSE [reset_since EXCEPT ![s] = FALSE]
  ELSE IF forced # NoMode
  THEN /\ inj_call' = CallRecord(s, forced, "forced", 0)
       /\ UNCHANGED << session_states, last_selected, reset_since >>
  ELSE /\ inj_call' = CallRecord(s, NoMode, "default", 0)
       /\ UNCHANGED << session_states, last_selected, reset_since >>

\* should_inject_failure(session_id, message, failure_mode)
ShouldInjectFailure(s, forced, draws) ==
  IF forced # NoMode
  THEN /\ inj_call' = CallRecord(s, forced, "forced", 0)
       /\ UNCHANGED << session_states, last_selected, reset_since >>
  ELSE IF probabilistic_mode
  THEN LET st == EvalState(s)
           k == EvalPick(s, draws)
       IN  /\ st.message_count <= MaxMessages
           /\ session_states' =
                SetState(s, IF k = 0 THEN st ELSE Selected(st, ModeOrder[k], now))
           /\ inj_call' = EvaluationRecord(s, draws)
           /\ last_selected' = IF k = 0 THEN last_selected
                               ELSE [last_selected EXCEPT ![s] = now]
           /\ reset_since' = IF k = 0 THEN reset_since
                             ELSE [reset_since EXCEPT ![s] = FALSE]
  ELSE /\ inj_call' = CallRecord(s, NoMode, "default", 0)
       /\ UNCHANGED << session_states, last_selected, reset_since >>

\* A call that forces a mode (no draw is made).
ShouldInjectForced ==
  \E s \in InjSessions, forced \in Modes :
    /\ ShouldInjectFailure(s, forced, AllHigh)
    /\ UNCHANGED << now, probabilistic_mode, failure_rate_multiplier >>

\* A call that forces no mode.
ShouldInjectUnforced ==
  \E s \in InjSessions, draws \in DrawStreams :
    /\ ShouldInjectFailure(s, NoMode, draws)
    /\ UNCHANGED << now, probabilistic_mode, failure_rate_multiplier >>

\* reset_session_state(session_id)
ResetState(s) ==
  /\ session_states' = [t \in DOMAIN session_states \ {s} |-> session_states[t]]
  /\ reset_since' = [reset_since EXCEPT ![s] = TRUE]
  /\ inj_call' = [ op |-> "reset", session |-> s, forced |-> NoMode, via |-> "reset",
                   inject |-> FALSE, mode |-> NoMode, at |-> now,
                   prev |-> last_selected[s], reset_between |-> TRUE,
                   drawn |-> 0, probability |-> 0 ]
  /\ UNCHANGED last_selected

ResetSessionState ==
  \E s \in InjSessions :
    /\ ResetState(s)
    /\ UNCHANGED << now, probabilistic_mode, failure_rate_multiplier >>

\* The wall clock advances.
Tick ==
  /\ now < StartTime + MaxTicks * TickStep
  /\ now' = now + TickStep
  /\ UNCHANGED injVars

InjInit ==
  /\ now = StartTime
  /\ probabilistic_mode \in BOOLEAN
  /\ failure_rate_multiplier \in Multipliers
  /\ session_states = << >>
  /\ inj_call = [ op |-> "none", session |-> "s1", forced |-> NoMode, via |-> "none",
                  inject |-> FALSE, mode |-> NoMode, at |-> StartTime,
                  prev |-> NoTime, reset_between |-> FALSE,
                  drawn |-> 0, probability |-> 0 ]
  /\ last_selected = [s \in Sessions |-> NoTime]
  /\ reset_since = [s \in Sessions |-> FALSE]

\* The process_request tasks of one session that run on one event loop.
Tasks == {"r1", "r2", "r3"}

TaskSession == "s1"

\* No task has been started.
NoTasks ==
  [ pc |-> [k \in Tasks |-> "created"],
    current_time |-> [k \in Tasks |-> NoTime],
    inject |-> [k \in Tasks |-> FALSE],
    mode |-> [k \in Tasks |-> NoMode] ]

\* A mutant of SuspendsInEvaluation: the evaluation awaits between the
\* cooldown test and the draws.
SuspendsInEvaluationAfterTest == TRUE

\* _evaluate_probabilistic_failure contains no await: between its cooldown test
\* and its state update the event loop runs no other task.
SuspendsInEvaluation == FALSE

\* The event loop can run a step of task k: no other task is inside a stretch
\* of code without suspension point.
CanRun(k) ==
  SuspendsInEvaluation \/ \A j \in Tasks \ {k} : tasks.pc[j] # "evaluating"

\* process_request up to the call of should_inject_failure: load_state and
\* create_checkpoint are awaited.
TaskStart(k) ==
  /\ tasks.pc[k] = "created"
  /\ CanRun(k)
  /\ tasks' = [tasks EXCEPT !.pc[k] = "ready"]
  /\ UNCHANGED session_states

\* _evaluate_probabilistic_failure up to the for-loop: the session state is
\* created, message_count incremented, the time read and the cooldown tested.
TaskEvaluationBegins(k) ==
  /\ tasks.pc[k] = "ready"
  /\ CanRun(k)
  /\ probabilistic_mode
  /\ session_states' = SetState(TaskSession, EvalState(TaskSession))
  /\ tasks' =
       IF InCooldown(EvalState(TaskSession), now)
       THEN [tasks EXCEPT !.pc[k] = "evaluated", !.current_time[k] = now]
       ELSE [tasks EXCEPT !.pc[k] = "evaluating", !.current_time[k] = now]

\* The for-loop of _evaluate_probabilistic_failure: the draws, and the update
\* of the session state when a mode is selected.
TaskEvaluationEnds(k, draws) ==
  /\ tasks.pc[k] = "evaluating"
  /\ CanRun(k)
  /\ \E i \in {RollFrom(1, session_states[TaskSession], draws)} :
       /\ session_states' =
            IF i = 0 THEN session_states
            ELSE SetState(TaskSession,
                          Selected(session_states[TaskSession], ModeOrder[i],
                                   tasks.current_time[k]))
       /\ tasks' = [tasks EXCEPT !.pc[k] = "evaluated",
                                 !.inject[k] = (i # 0),
                                 !.mode[k] = IF i = 0 THEN NoMode ELSE ModeOrder[i]]

\* The rest of process_request: the response is generated, the failure applied.
TaskFinish(k) ==
  /\ tasks.pc[k] = "evaluated"
  /\ CanRun(k)
  /\ tasks' = [tasks EXCEPT !.pc[k] = "returned"]
  /\ UNCHANGED session_states

\* One step of one task.
TaskStep ==
  \E k \in Tasks :
    \/ TaskStart(k)
    \/ TaskEvaluationBegins(k)
    \/ \E draws \in TaskDraws : TaskEvaluationEnds(k, draws)
    \/ TaskFinish(k)

\* The modes inject_integration_failure has a branch for.
IntegrationModes == {"api_timeout", "auth_error", "service_unavailable"}

\* A mutant of TimeoutSleeps: the lower end of the range is not applied.
TimeoutSleepsFromZero == 0..TimeoutRangeHigh

\* random.uniform(*timeout_range), in whole seconds.
TimeoutSleeps == TimeoutRangeLow..TimeoutRangeHigh

\* No call of inject_integration_failure has been made.
NoInjectCall ==
  [ calls |-> 0, mode |-> NoMode, pc |-> "idle", started |-> NoTime,
    slept |-> NoTime, outcome |-> "none" ]

\* inject_integration_failure(session_id, failure_mode) is called.
BeginInjection ==
  \E m \in Modes :
    /\ inject_call.pc \in {"idle", "done"}
    /\ inject_call.calls < MaxInjections
    /\ inject_call' =
         [ calls |-> inject_call.calls + 1, mode |-> m, pc |-> "called",
           started |-> now, slept |-> NoTime, outcome |-> "none" ]
    /\ UNCHANGED now

\* The api_timeout branch: await asyncio.sleep(random.uniform(*timeout_range)).
SleepForTimeout ==
  \E d \in TimeoutSleeps :
    /\ inject_call.pc = "called"
    /\ inject_call.mode = "api_timeout"
    /\ now' = now + d
    /\ inject_call' = [inject_call EXCEPT !.pc = "awake", !.slept = d]

\* The api_timeout branch after the sleep: raise asyncio.TimeoutError.
RaiseTimeout ==
  /\ inject_call.pc = "awake"
  /\ inject_call' = [inject_call EXCEPT !.pc = "done", !.outcome = "TimeoutError"]
  /\ UNCHANGED now

\* The auth_error and service_unavailable branches: raise Exception.
RaiseIntegrationError ==
  /\ inject_call.pc = "called"
  /\ inject_call.mode \in IntegrationModes \ {"api_timeout"}
  /\ inject_call' = [inject_call EXCEPT !.pc = "done", !.outcome = "Exception"]
  /\ UNCHANGED now

\* No branch for the mode: the function falls off its end and returns None.
ReturnWithoutRaising ==
  /\ inject_call.pc = "called"
  /\ inject_call.mode \notin IntegrationModes
  /\ inject_call' = [inject_call EXCEPT !.pc = "done", !.outcome = "returned"]
  /\ UNCHANGED now

\* ------------------------------------------------- CustomerServiceAgent

\* Response texts are triples: where the text comes from, which one, and the
\* index of the canned entry chosen by random.choice.
LlmText == << "llm", "reply", 0 >>
NoText == << "none", "none", 0 >>
Canned(m, i) == << "canned", m, i >>
ServiceError(m) == << "service_error", m, 0 >>
Unexpected(step) == << "unexpected_error", step, 0 >>

\* What the LLM boundary does in one call.
LlmOutcomes == {"ok", "timeout", "rate_limit", "error"}

\* _generate_normal_response: the response of the call, which never raises.
NaturalResponse(llm) ==
  LET text == CASE llm = "ok" -> LlmText
                [] llm = "timeout" -> << "fallback", "delays", 0 >>
                [] llm = "rate_limit" -> << "fallback", "high_volume", 0 >>
                [] llm = "error" -> << "fallback", "trouble", 0 >>
      status == CASE llm = "ok" -> "success"
                  [] llm = "timeout" -> "timeout"
                  [] llm = "rate_limit" -> "failure"
                  [] llm = "error" -> "failure"
      mode == CASE llm = "ok" -> NoMode
                [] llm = "timeout" -> "api_timeout"
                [] llm = "rate_limit" -> "rate_limiting"
                [] llm = "error" -> "service_unavailable"
  IN  [ response |-> text, status |-> status, natural_status |-> status,
        failure_mode |-> mode, failure_injection_applied |-> FALSE,
        natural_response |-> text ]

\* A mutant of InjectedResponse: the observed status and text are also
\* reported as the natural ones.
InjectedResponseNaturalLost(m, natural, choice) ==
  LET raises == FailureTypeOf(m) \in {"integration", "resource"}
      text == IF raises THEN ServiceError(m) ELSE Canned(m, choice)
      status == IF raises THEN "error" ELSE "failure"
  IN  [ response |-> text, status |-> status, natural_status |-> status,
        failure_mode |-> m, failure_injection_applied |-> TRUE,
        natural_response |-> text ]

\* _apply_failure_injection: the response it returns for mode m. Output-quality
\* and behavioral modes return a canned text; integration and resource modes
\* raise inside the try block and the except clause builds the response.
InjectedResponse(m, natural, choice) ==
  LET raises == FailureTypeOf(m) \in {"integration", "resource"}
  IN  [ response |-> IF raises THEN ServiceError(m) ELSE Canned(m, choice),
        status |-> IF raises THEN "error" ELSE "failure",
        natural_status |-> natural.status,
        failure_mode |-> m, failure_injection_applied |-> TRUE,
        natural_response |-> natural.response ]

\* The error_response of the except clause of process_request.
ErrorResponse(step) ==
  [ response |-> Unexpected(step), status |-> "error", natural_status |-> "error",
    failure_mode |-> NoMode, failure_injection_applied |-> FALSE,
    natural_response |-> NoText ]

NoResponse ==
  [ response |-> NoText, status |-> "none", natural_status |-> "none",
    failure_mode |-> NoMode, failure_injection_applied |-> FALSE,
    natural_response |-> NoText ]

\* The AgentInteraction row of the normal path.
InteractionRow(resp) ==
  [ status |-> resp.status, natural_status |-> resp.natural_status,
    failure_mode |-> resp.failure_mode,
    failure_injection_applied |-> resp.failure_injection_applied,
    natural_response |-> resp.natural_response ]

\* The AgentInteraction row of the except clause: natural_status, failure_mode,
\* failure_injection_applied and natural_response are not given.
ErrorRow ==
  [ status |-> "error", natural_status |-> "null", failure_mode |-> NoMode,
    failure_injection_applied |-> FALSE, natural_response |-> NoText ]

NoRow ==
  [ status |-> "none", natural_status |-> "none", failure_mode |-> NoMode,
    failure_injection_applied |-> FALSE, natural_response |-> NoText ]

\* db_session.commit(): the insert succeeds when the database is reachable and
\* the row satisfies the NOT NULL constraint on natural_status.
CommitSucceeds(row, db_ok) == db_ok /\ row.natural_status # "null"

\* The agent state process_request starts from when none is loaded.
FreshAgentState == [ history_len |-> 0, failure_count |-> 0 ]

\* The seconds inject_integration_failure sleeps for api_timeout.
SleepSeconds == {5, 10, 15}

Put(f, s, v) == [t \in DOMAIN f \cup {s} |-> IF t = s THEN v ELSE f[t]]
Drop(f, s) == [t \in DOMAIN f \ {s} |-> f[t]]

\* process_request(request, db_session), from the first statement to the return
\* or to the exception that leaves it, with the request counter of its
\* track_agent_performance decorator. redis_up: the store answers load_state,
\* create_checkpoint and track_failure_count (their errors are swallowed);
\* save_ok: it answers save_state (whose error is re-raised); tokens_ok:
\* _count_tokens does not raise; db_ok: the database is reachable.
\* (Each \E over a one-element set names a value the code computes once.)
ProcessRequest(s, forced, draws, llm, redis_up, save_ok, tokens_ok, db_ok, choice, sleep) ==
  /\ requests < MaxRequests
  /\ now + sleep <= StartTime + MaxTicks * TickStep
  /\ ShouldInjectFailure(s, forced, draws)
  /\ \E loaded \in { IF redis_up /\ s \in DOMAIN redis.state
                     THEN redis.state[s] ELSE FreshAgentState },
        natural \in { NaturalResponse(llm) },
        applied \in { tokens_ok /\ inj_call'.inject /\ inj_call'.mode # NoMode } :
     \E response \in { IF applied THEN InjectedResponse(inj_call'.mode, natural, choice)
                       ELSE natural } :
     \E raised_at \in { IF ~tokens_ok THEN "count_tokens"
                        ELSE IF ~save_ok THEN "save_state"
                        ELSE IF ~CommitSucceeds(InteractionRow(response), db_ok)
                        THEN "commit"
                        ELSE "none" } :
     \E committed \in { raised_at = "none" \/ CommitSucceeds(ErrorRow, db_ok) } :
       /\ now' = IF applied /\ inj_call'.mode = "api_timeout" THEN now + sleep ELSE now
       /\ redis' =
            [ state |-> IF tokens_ok /\ save_ok
                        THEN Put(redis.state, s,
                                 [ history_len |-> loaded.history_len + 2,
                                   failure_count |-> loaded.failure_count
                                                     + (IF applied THEN 1 ELSE 0) ])
                        ELSE redis.state,
              checkpoint |-> IF redis_up THEN Put(redis.checkpoint, s, loaded)
                             ELSE redis.checkpoint,
              failure_count |-> IF applied /\ redis_up
                                THEN Put(redis.failure_count, s,
                                         (IF s \in DOMAIN redis.failure_count
                                          THEN redis.failure_count[s] ELSE 0) + 1)
                                ELSE redis.failure_count ]
       /\ requests' = requests + 1
       /\ db_count' = IF committed THEN db_count + 1 ELSE db_count
       /\ agent_call' =
            [ op |-> "process_request", session |-> s, forced |-> forced,
              outcome |-> IF committed THEN "returned" ELSE "raised",
              response |-> IF raised_at = "none" THEN response
                           ELSE IF committed THEN ErrorResponse(raised_at)
                           ELSE NoResponse,
              raised_at |-> raised_at,
              applied |-> applied,
              applied_mode |-> IF applied THEN inj_call'.mode ELSE NoMode,
              llm_text |-> natural.response, llm_status |-> natural.status,
              recorded |-> committed,
              row |-> IF raised_at = "none" THEN InteractionRow(response)
                      ELSE IF committed THEN ErrorRow ELSE NoRow,
              added |-> IF raised_at = "none" THEN InteractionRow(response)
                        ELSE ErrorRow ]
  /\ UNCHANGED << probabilistic_mode, failure_rate_multiplier >>

\* The collaborators that fail during one request: none or one of them.
FaultSets == { {}, {"redis"}, {"count_tokens"}, {"save_state"}, {"db"} }

\* The mode should_inject_failure will return for these inputs (NoMode: none).
PlannedMode(s, forced, draws) ==
  IF forced # NoMode THEN forced
  ELSE IF probabilistic_mode
  THEN LET k == EvalPick(s, draws) IN IF k # 0 THEN ModeOrder[k] ELSE NoMode
  ELSE NoMode

\* random.choice is reached only for the modes with a canned pool, and
\* asyncio.sleep only for api_timeout.
ChoicesFor(m) ==
  IF m # NoMode /\ FailureTypeOf(m) \in {"output_quality", "behavioral"}
  THEN 1..PoolSize ELSE {1}
SleepsFor(m) == IF m = "api_timeout" THEN SleepSeconds ELSE {0}

Request(s, forced, draws) ==
  \E llm \in LlmOutcomes, faults \in FaultSets, m \in {PlannedMode(s, forced, draws)} :
    \E choice \in ChoicesFor(m), sleep \in SleepsFor(m) :
      ProcessRequest(s, forced, draws, llm, "redis" \notin faults,
                     "save_state" \notin faults, "count_tokens" \notin faults,
                     "db" \notin faults, choice, sleep)

\* A request that forces a failure mode.
ProcessForced ==
  \E s \in InjSessions, forced \in Modes : Request(s, forced, AllHigh)

\* A request that forces none.
ProcessUnforced ==
  \E s \in InjSessions, draws \in SureDrawStreams : Request(s, NoMode, draws)

\* reset_session(session_id); redis_up: the store answers the two deletes
\* (their errors are swallowed).
ResetSessionOf(s, redis_up) ==
  /\ redis' = IF redis_up
              THEN [redis EXCEPT !.state = Drop(@, s), !.failure_count = Drop(@, s)]
              ELSE redis
  /\ ResetState(s)
  /\ UNCHANGED << now, probabilistic_mode, failure_rate_multiplier,
                  db_count, requests, agent_call, behaviorVars >>

ResetSession ==
  \E s \in InjSessions, redis_up \in BOOLEAN : ResetSessionOf(s, redis_up)

AgentInit ==
  /\ redis = [ state |-> << >>, checkpoint |-> << >>, failure_count |-> << >> ]
  /\ db_count = 0
  /\ requests = 0
  /\ agent_call = [ op |-> "none", session |-> "s1", forced |-> NoMode,
                    outcome |-> "none", response |-> NoResponse, raised_at |-> "none",
                    applied |-> FALSE, applied_mode |-> NoMode,
                    llm_text |-> NoText, llm_status |-> "none", recorded |-> FALSE,
                    row |-> NoRow, added |-> NoRow ]

\* ----------------------------------------------------- InteractionTracker

\* The response texts of the tracked interactions and their character counts.
Texts == {"hi", "hello"}

TextLength(t) == IF t = "hi" THEN 2 ELSE 5

\* dict.get(session_id, []).
Lookup(f, s) == IF s \in DOMAIN f THEN f[s] ELSE << >>

\* The slice lst[-n:] for n >= 0. Python reads -0 as 0, so for n = 0 the slice
\* starts at the front of the list.
PySuffix(seq, n) ==
  IF n = 0 \/ n >= Len(seq) THEN seq ELSE SubSeq(seq, Len(seq) - n + 1, Len(seq))

\* A mutant of KeepLast: the slice [:10], which keeps the oldest entries.
KeepFirst(seq) ==
  IF Len(seq) > ResponseCap THEN SubSeq(seq, 1, ResponseCap) ELSE seq

\* The truncation of the response list in track_interaction.
KeepLast(seq) ==
  IF Len(seq) > ResponseCap THEN PySuffix(seq, ResponseCap) ELSE seq

\* A mutant of CountConversationTurns: the current turn is not counted.
CountConversationTurnsStale(s) == Len(Lookup(session_behaviors, s))

\* _count_conversation_turns.
CountConversationTurns(s) == Len(Lookup(session_behaviors, s)) + 1

\* The InteractionBehavior track_interaction builds for a response with the
\* given text and processing_time_ms.
NewBehaviorWith(s, text, latency) ==
  [ session_id |-> s, response_latency_ms |-> latency,
    message_length |-> TextLength(text),
    conversation_turns |-> CountConversationTurns(s) ]

\* The same for a response that took 100 ms.
NewBehavior(s, text) == NewBehaviorWith(s, text, 100)

NoBehavior ==
  [ session_id |-> "none", response_latency_ms |-> 0, message_length |-> 0,
    conversation_turns |-> 0 ]

\* What track_interaction does to the tracker.
TrackWith(s, text, latency) ==
  /\ session_behaviors' =
       Put(session_behaviors, s,
           Append(Lookup(session_behaviors, s), NewBehaviorWith(s, text, latency)))
  /\ session_responses' =
       Put(session_responses, s, KeepLast(Append(Lookup(session_responses, s), text)))
  /\ appended' = [appended EXCEPT ![s] = Append(@, text)]
  /\ supplied' = [supplied EXCEPT ![s] = Append(@, latency)]

\* The same for a response that took 100 ms.
Track(s, text) == TrackWith(s, text, 100)

\* A mutant of Clear: the response list is kept.
ClearBehaviorsOnly(s) ==
  /\ session_behaviors' = Drop(session_behaviors, s)
  /\ session_responses' = session_responses
  /\ appended' = [appended EXCEPT ![s] = << >>]
  /\ supplied' = [supplied EXCEPT ![s] = << >>]

\* A mutant of Clear: the two dictionaries are emptied.
ClearEverySession(s) ==
  /\ session_behaviors' = << >>
  /\ session_responses' = << >>
  /\ appended' = [t \in Sessions |-> << >>]
  /\ supplied' = [t \in Sessions |-> << >>]

\* What clear_session_data does to the tracker.
Clear(s) ==
  /\ session_behaviors' = Drop(session_behaviors, s)
  /\ session_responses' = Drop(session_responses, s)
  /\ appended' = [appended EXCEPT ![s] = << >>]
  /\ supplied' = [supplied EXCEPT ![s] = << >>]

\* lst[-count:] if lst else [].
Recent(lst, count) == IF Len(lst) > 0 THEN PySuffix(lst, count) ELSE << >>

GetRecentBehaviors(s, count) == Recent(Lookup(session_behaviors, s), count)

GetRecentResponses(s, count) == Recent(Lookup(session_responses, s), count)

\* The number of behaviors the tracker holds, over all sessions.
RECURSIVE TrackedIn(_)
TrackedIn(ss) ==
  IF ss = {} THEN 0
  ELSE LET s == CHOOSE t \in ss : TRUE
       IN  Len(Lookup(session_behaviors, s)) + TrackedIn(ss \ {s})

TrackInteraction ==
  \E s \in Sessions, text \in Texts :
    /\ TrackedIn(Sessions) < MaxTracked
    /\ Track(s, text)

ClearSessionData ==
  \E s \in Sessions : Clear(s)

\* sum(lst)
RECURSIVE SumSeq(_)
SumSeq(lst) == IF lst = << >> THEN 0 ELSE lst[1] + SumSeq(Tail(lst))

\* A mutant of AverageLatency: the latency of the latest behavior.
AverageLatencyOfLatest(behaviors) ==
  behaviors[Len(behaviors)].response_latency_ms * Unit

\* sum(b.response_latency_ms for b in behaviors) / len(behaviors), in units of
\* 1/10000 ms.
AverageLatency(behaviors) ==
  (SumSeq([i \in 1..Len(behaviors) |-> behaviors[i].response_latency_ms]) * Unit)
    \div Len(behaviors)

\* sum(b.message_length for b in behaviors) / len(behaviors), in units of
\* 1/10000 characters.
AverageLength(behaviors) ==
  (SumSeq([i \in 1..Len(behaviors) |-> behaviors[i].message_length]) * Unit)
    \div Len(behaviors)

\* The result of get_session_metrics for a session without behaviors.
EmptyMetrics ==
  [ interaction_count |-> 0, avg_response_latency |-> 0, avg_message_length |-> 0 ]

\* get_session_metrics(s), as far as the fields of the behaviors kept here go.
GetSessionMetrics(s) ==
  LET behaviors == Lookup(session_behaviors, s)
  IN  IF behaviors = << >> THEN EmptyMetrics
      ELSE [ interaction_count |-> Len(behaviors),
             avg_response_latency |-> AverageLatency(behaviors),
             avg_message_length |-> AverageLength(behaviors),
             latest_behavior |-> behaviors[Len(behaviors)] ]

\* The session whose interactions are measured; the other one stays unknown.
MetricsSessions == {"s1"}

\* The processing times of the tracked responses, in ms.
MetricsLatencies == {100, 250, 400}

\* track_interaction for a response with one of these processing times.
TrackMeasured ==
  \E s \in MetricsSessions, text \in Texts, latency \in MetricsLatencies :
    /\ text = "hello"
    /\ Len(Lookup(session_behaviors, s)) < MaxMeasured
    /\ TrackWith(s, text, latency)
    /\ UNCHANGED metrics_call

NoMetricsCall ==
  [ session |-> "s1", supplied |-> << >>, done |-> FALSE, result |-> EmptyMetrics ]

\* A call of get_session_metrics, with the latencies tracked for the session
\* since its last clear.
GetSessionMetricsCall ==
  \E s \in Sessions :
    /\ metrics_call' = [ session |-> s, supplied |-> supplied[s], done |-> TRUE,
                         result |-> GetSessionMetrics(s) ]
    /\ UNCHANGED trackerVars

\* Two threads that call track_interaction for the same session, one response
\* text each.
Threads == {"t1", "t2"}

RaceSession == "s1"

ThreadText(t) == IF t = "t1" THEN "hi" ELSE "hello"

\* The number of interactions of the session tracked before the two calls.
PriorInteractions == {0, ResponseCap - 1, ResponseCap}

\* The tracker after n interactions of the session, none of them with the
\* text of a thread.
PriorBehaviors(n) ==
  [ i \in 1..n |->
      [ session_id |-> RaceSession, response_latency_ms |-> 100,
        message_length |-> TextLength("earlier"), conversation_turns |-> i ] ]

PriorResponses(n) == [ i \in 1..n |-> "earlier" ]

\* No thread has entered track_interaction.
NoRace ==
  [ pc |-> [t \in Threads |-> "idle"],
    turns |-> [t \in Threads |-> 0],
    create |-> [t \in Threads |-> FALSE],
    slice |-> [t \in Threads |-> << >>],
    log |-> << >> ]

\* Thread t has made the given step.
Stepped(t, step, pc) ==
  [ race EXCEPT !.pc[t] = pc, !.log = Append(@, [thread |-> t, step |-> step]) ]

\* conversation_turns = self._count_conversation_turns(session_id)
RaceCount(t) ==
  /\ race.pc[t] = "idle"
  /\ race' = [ Stepped(t, "count", "counted") EXCEPT
                 !.turns[t] = CountConversationTurns(RaceSession) ]
  /\ UNCHANGED trackerVars

\* if session_id not in self.session_behaviors
RaceTestBehaviors(t) ==
  /\ race.pc[t] = "counted"
  /\ race' = [ Stepped(t, "test_behaviors", "tested_behaviors") EXCEPT
                 !.create[t] = RaceSession \notin DOMAIN session_behaviors ]
  /\ UNCHANGED trackerVars

\* self.session_behaviors[session_id] = [] where the test said so, and
\* self.session_behaviors[session_id].append(behavior)
RaceAppendBehavior(t) ==
  /\ race.pc[t] = "tested_behaviors"
  /\ race' = Stepped(t, "append_behavior", "appended_behavior")
  /\ session_behaviors' =
       Put(session_behaviors, RaceSession,
           Append(IF race.create[t] THEN << >> ELSE Lookup(session_behaviors, RaceSession),
                  [ NewBehavior(RaceSession, ThreadText(t)) EXCEPT
                      !.conversation_turns = race.turns[t] ]))
  /\ supplied' = [supplied EXCEPT ![RaceSession] = Append(@, 100)]
  /\ UNCHANGED << session_responses, appended >>

\* if session_id not in self.session_responses
RaceTestResponses(t) ==
  /\ race.pc[t] = "appended_behavior"
  /\ race' = [ Stepped(t, "test_responses", "tested_responses") EXCEPT
                 !.create[t] = RaceSession \notin DOMAIN session_responses ]
  /\ UNCHANGED trackerVars

\* self.session_responses[session_id] = [] where the test said so, and
\* self.session_responses[session_id].append(response.response)
RaceAppendResponse(t) ==
  /\ race.pc[t] = "tested_responses"
  /\ race' = Stepped(t, "append_response", "appended_response")
  /\ session_responses' =
       Put(session_responses, RaceSession,
           Append(IF race.create[t] THEN << >> ELSE Lookup(session_responses, RaceSession),
                  ThreadText(t)))
  /\ appended' = [appended EXCEPT ![RaceSession] = Append(@, ThreadText(t))]
  /\ UNCHANGED << session_behaviors, supplied >>

\* A mutant of StoredSlice: the list is truncated as it is found at the time
\* of the assignment.
StoredSliceOfCurrent(read, current) == KeepLast(current)

\* The value the assignment stores: the slice read before it, whatever the
\* list has become since.
StoredSlice(read, current) == read

\* if len(self.session_responses[session_id]) > 10, and the evaluation of
\* self.session_responses[session_id][-10:]
RaceReadSlice(t) ==
  /\ race.pc[t] = "appended_response"
  /\ race' =
       IF Len(Lookup(session_responses, RaceSession)) > ResponseCap
       THEN [ Stepped(t, "read_slice", "sliced") EXCEPT
                !.slice[t] = PySuffix(session_responses[RaceSession], ResponseCap) ]
       ELSE Stepped(t, "skip_slice", "done")
  /\ UNCHANGED trackerVars

\* self.session_responses[session_id] = <the slice>
RaceStoreSlice(t) ==
  /\ race.pc[t] = "sliced"
  /\ race' = Stepped(t, "store_slice", "done")
  /\ session_responses' =
       Put(session_responses, RaceSession,
           StoredSlice(race.slice[t], Lookup(session_responses, RaceSession)))
  /\ UNCHANGED << session_behaviors, appended, supplied >>

\* One step of one of the two threads.
RaceStep ==
  \E t \in Threads :
    \/ RaceCount(t)
    \/ RaceTestBehaviors(t)
    \/ RaceAppendBehavior(t)
    \/ RaceTestResponses(t)
    \/ RaceAppendResponse(t)
    \/ RaceReadSlice(t)
    \/ RaceStoreSlice(t)

\* The tracker after some interactions of the session.
RaceTrackerInit ==
  \E n \in PriorInteractions :
    /\ session_behaviors =
         IF n = 0 THEN << >> ELSE [s \in {RaceSession} |-> PriorBehaviors(n)]
    /\ session_responses =
         IF n = 0 THEN << >> ELSE [s \in {RaceSession} |-> PriorResponses(n)]
    /\ appended = [s \in Sessions |-> IF s = RaceSession THEN PriorResponses(n) ELSE << >>]
    /\ supplied = [s \in Sessions |-> IF s = RaceSession THEN [i \in 1..n |-> 100] ELSE << >>]

ConcurrencyInit == race = NoRace /\ tasks = NoTasks

TrackerInit ==
  /\ session_behaviors = << >>
  /\ session_responses = << >>
  /\ appended = [s \in Sessions |-> << >>]
  /\ supplied = [s \in Sessions |-> << >>]

\* -------------------------------------------------------- BaselineManager

\* The constructor arguments: the defaults, and the values the tests use.
MinInteractionsChoices == {3, DefaultMinInteractions}

UpdateFrequencyChoices == {0, DefaultUpdateFrequencyHours}

ElapseStep == ElapseHours * SecondsPerHour

\* The sessions whose baselines are managed.
BaselineSessions == {"s1"}

\* A list of n behaviors stands for the behaviors with conversation_turns
\* 1..n; int(statistics.mean(conversation_depths)) of such a list.
BatchDepth(n) == (n + 1) \div 2

\* int(statistics.mean(conversation_depths)) of a non-empty list of tracked
\* behaviors.
RECURSIVE TurnsIn(_)
TurnsIn(history) ==
  IF history = << >> THEN 0
  ELSE Head(history).conversation_turns + TurnsIn(Tail(history))

MeanDepth(history) == TurnsIn(history) \div Len(history)

\* A BehavioralBaseline computed from n behaviors.
Baseline(n, depth, established, updated) ==
  [ interaction_count |-> n, standard_conversation_depth |-> depth,
    established_at |-> established, last_updated |-> updated ]

\* None where a baseline is expected.
NoBaseline == Baseline(0, 0, NoTime, NoTime)

\* self.baselines.get(session_id).
GetBaseline(bl, s) == IF s \in DOMAIN bl THEN bl[s] ELSE NoBaseline

\* establish_baseline for n behaviors whose mean conversation depth is depth.
EstablishedWith(bl, s, n, depth) ==
  IF n < min_interactions THEN bl ELSE Put(bl, s, Baseline(n, depth, now, now))

\* A mutant of Established: no test of the number of behaviors.
EstablishedUnguarded(bl, s, n) == Put(bl, s, Baseline(n, BatchDepth(n), now, now))

\* establish_baseline(s, behaviors) with len(behaviors) = n: the baselines after it.
Established(bl, s, n) == EstablishedWith(bl, s, n, BatchDepth(n))

\* A mutant of EstablishReturned: exactly min_interactions behaviors are refused.
EstablishReturnedStrict(bl, s, n) ==
  IF n <= min_interactions THEN NoBaseline ELSE Established(bl, s, n)[s]

\* What establish_baseline returns.
EstablishReturned(bl, s, n) ==
  IF n < min_interactions THEN NoBaseline ELSE Established(bl, s, n)[s]

\* The test of update throttling in update_baseline.
Throttled(existing) ==
  now - existing.last_updated < update_frequency_hours * SecondsPerHour

\* A mutant of Blended: the conversation depth follows the new behaviors too.
BlendedWithDepth(existing, n) ==
  Baseline(existing.interaction_count + n, BatchDepth(n), existing.established_at, now)

\* The weighted blend of update_baseline with len(new_behaviors) = n.
Blended(existing, n) ==
  Baseline(existing.interaction_count + n, existing.standard_conversation_depth,
           existing.established_at, now)

\* A mutant of Updated: no update throttling.
UpdatedUnthrottled(bl, s, n) ==
  IF s \notin DOMAIN bl THEN Established(bl, s, n)
  ELSE IF n > 0 THEN Put(bl, s, Blended(bl[s], n))
       ELSE bl

\* A mutant of Updated: an empty list of new behaviors is blended as well.
UpdatedBlendingEmpty(bl, s, n) ==
  IF s \notin DOMAIN bl THEN Established(bl, s, n)
  ELSE IF Throttled(bl[s]) THEN bl
  ELSE Put(bl, s, Blended(bl[s], n))

\* update_baseline(s, new_behaviors) with len(new_behaviors) = n.
Updated(bl, s, n) ==
  IF s \notin DOMAIN bl THEN Established(bl, s, n)
  ELSE IF Throttled(bl[s]) THEN bl
  ELSE IF n > 0
       THEN Put(bl, s, Blended(bl[s], n))
       ELSE bl

\* What update_baseline returns.
UpdateReturned(bl, s, n) ==
  IF s \notin DOMAIN bl THEN EstablishReturned(bl, s, n)
  ELSE IF Throttled(bl[s]) THEN bl[s]
  ELSE IF n > 0 THEN Updated(bl, s, n)[s]
       ELSE bl[s]

\* _detect_baseline_anomaly with len(session_behaviors) = n: a missing baseline
\* is established when there is enough history.
LazilyEstablished(bl, s, n) ==
  IF s \notin DOMAIN bl /\ n >= min_interactions THEN Established(bl, s, n) ELSE bl

\* The same for a history of tracked behaviors.
LazilyEstablishedFrom(bl, s, history) ==
  IF s \notin DOMAIN bl /\ Len(history) >= min_interactions
  THEN EstablishedWith(bl, s, Len(history), MeanDepth(history))
  ELSE bl

\* The record of a call: its arguments, the time, the baseline stored for the
\* session before it, and what it returned.
BaselineCall(op, s, n, returned) ==
  [ op |-> op, session |-> s, n |-> n, at |-> now,
    prior |-> GetBaseline(baselines, s), returned |-> returned,
    deviation |-> 0, reported |-> FALSE ]

EstablishBaseline ==
  \E s \in BaselineSessions, n \in 0..MaxBatch :
    /\ baselines' = Established(baselines, s, n)
    /\ baseline_call' =
         BaselineCall("establish_baseline", s, n, EstablishReturned(baselines, s, n))

UpdateBaseline ==
  \E s \in BaselineSessions, n \in 0..MaxBatch :
    /\ s \in DOMAIN baselines => baselines[s].interaction_count + n <= MaxInteractionCount
    /\ baselines' = Updated(baselines, s, n)
    /\ baseline_call' =
         BaselineCall("update_baseline", s, n, UpdateReturned(baselines, s, n))

\* The values detect_deviation returns for the current behavior, around the
\* anomaly threshold.
DeviationScores == {0, AnomalyThreshold - 1, AnomalyThreshold, Unit}

\* A mutant of BaselineAnomalyReported: a deviation equal to the threshold is
\* not reported.
BaselineAnomalyReportedAbove(bl, s, n, deviation) ==
  /\ s \in DOMAIN LazilyEstablished(bl, s, n)
  /\ deviation > AnomalyThreshold

\* _detect_baseline_anomaly returns an anomaly: there is a baseline after the
\* lazy establishment and the deviation from it reaches the threshold.
BaselineAnomalyReported(bl, s, n, deviation) ==
  /\ s \in DOMAIN LazilyEstablished(bl, s, n)
  /\ deviation >= AnomalyThreshold

\* detect_anomalies, as far as the baselines and the baseline deviation go.
DetectAnomalies ==
  \E s \in BaselineSessions, n \in 0..MaxBatch, deviation \in DeviationScores :
    /\ baselines' = LazilyEstablished(baselines, s, n)
    /\ baseline_call' =
         [ BaselineCall("detect_anomalies", s, n, NoBaseline) EXCEPT
             !.deviation = deviation,
             !.reported = BaselineAnomalyReported(baselines, s, n, deviation) ]

RemoveBaseline ==
  \E s \in BaselineSessions :
    /\ baselines' = Drop(baselines, s)
    /\ baseline_call' = BaselineCall("remove_baseline", s, 0, NoBaseline)

\* Time passes between two calls.
Elapse ==
  /\ now < StartTime + MaxElapses * ElapseStep
  /\ now' = now + ElapseStep

NoBaselineCall ==
  [ op |-> "none", session |-> "s1", n |-> 0, at |-> NoTime,
    prior |-> NoBaseline, returned |-> NoBaseline,
    deviation |-> 0, reported |-> FALSE ]

\* BaselineManager() as BehavioralMonitoringService constructs it.
BaselineInit ==
  /\ baselines = << >>
  /\ min_interactions = DefaultMinInteractions
  /\ update_frequency_hours = DefaultUpdateFrequencyHours
  /\ baseline_call = NoBaselineCall

\* BaselineManager(min_interactions, update_frequency_hours).
BaselineConfiguredInit ==
  /\ baselines = << >>
  /\ min_interactions \in MinInteractionsChoices
  /\ update_frequency_hours \in UpdateFrequencyChoices
  /\ baseline_call = NoBaselineCall

\* The statistics of a stored baseline that detect_deviation reads: rates in
\* units of 1/10000, latencies in milliseconds.
DeviationBaselines ==
  [ avg_response_latency : {0, 100, 200},
    typical_message_length_range : {<< 2, 5 >>, << 5, 5 >>},
    normal_clarification_rate : {0, 2500},
    confidence_average : {0, 1} ]

\* The behaviors detect_deviation is called with.
DeviationLatencies == {0, 50, 100, 150, 200, 400}

DeviationBehaviors ==
  [ response_latency_ms : DeviationLatencies,
    message_length : {2, 5, 10},
    clarification_frequency : {0, 2500, 10000},
    confidence_expressions : {0, 1, 3} ]

Abs(x) == IF x < 0 THEN -x ELSE x

Smaller(x, y) == IF x < y THEN x ELSE y

Larger(x, y) == IF x < y THEN y ELSE x

\* A mutant of LatencyDeviation: the difference is taken with its sign.
LatencyDeviationSigned(latency, avg) ==
  Smaller(((latency - avg) * Unit) \div Larger(avg, 1), Unit)

\* min(abs(latency - avg) / max(avg, 1), 1.0), in units of 1/10000.
LatencyDeviation(latency, avg) ==
  Smaller((Abs(latency - avg) * Unit) \div Larger(avg, 1), Unit)

\* The message length deviation against the typical range, capped at 1.0.
LengthDeviation(length, range) ==
  Smaller(IF length < range[1]
          THEN ((range[1] - length) * Unit) \div Larger(range[1], 1)
          ELSE IF length > range[2]
          THEN ((length - range[2]) * Unit) \div Larger(range[2], 1)
          ELSE 0,
          Unit)

\* min(abs(clarification_frequency - normal_clarification_rate), 1.0)
ClarificationDeviation(frequency, rate) == Smaller(Abs(frequency - rate), Unit)

\* min(abs(count - average) / max(average + 1, 1), 1.0)
ConfidenceDeviation(count, average) ==
  Smaller((Abs(count - average) * Unit) \div Larger(average + 1, 1), Unit)

\* detect_deviation(current_behavior, baseline): the weighted sum with the
\* weights 0.3, 0.2, 0.3, 0.2, in units of 1/10000.
DetectDeviation(behavior, baseline) ==
  ( 3000 * LatencyDeviation(behavior.response_latency_ms, baseline.avg_response_latency)
  + 2000 * LengthDeviation(behavior.message_length, baseline.typical_message_length_range)
  + 3000 * ClarificationDeviation(behavior.clarification_frequency,
                                  baseline.normal_clarification_rate)
  + 2000 * ConfidenceDeviation(behavior.confidence_expressions,
                               baseline.confidence_average) ) \div Unit

\* Two calls that have not returned yet: one for behavior, one for the same
\* behavior with the latency other_latency.
PendingDeviation(baseline, behavior, other_latency) ==
  [ baseline |-> baseline, behavior |-> behavior, other_latency |-> other_latency,
    done |-> FALSE, result |-> 0, other_result |-> 0 ]

NoDeviationCall ==
  PendingDeviation([ avg_response_latency |-> 0,
                     typical_message_length_range |-> << 2, 5 >>,
                     normal_clarification_rate |-> 0, confidence_average |-> 0 ],
                   [ response_latency_ms |-> 0, message_length |-> 2,
                     clarification_frequency |-> 0, confidence_expressions |-> 0 ],
                   0)

DetectDeviationCalls ==
  /\ ~deviation_call.done
  /\ deviation_call' =
       [ deviation_call EXCEPT
           !.done = TRUE,
           !.result = DetectDeviation(deviation_call.behavior, deviation_call.baseline),
           !.other_result =
              DetectDeviation([deviation_call.behavior EXCEPT
                                 !.response_latency_ms = deviation_call.other_latency],
                              deviation_call.baseline) ]

\* -------------------------------------------- BehavioralMonitoringService

MonitorSessions == {"s1"}

MonitorTexts == {"hello"}

\* The anomaly types in the order detect_anomalies appends them.
AnomalyOrder ==
  << "baseline_deviation", "temporal_drift", "pattern_anomaly",
     "statistical_anomaly", "response_loop" >>

AnomalyTypes == {AnomalyOrder[i] : i \in 1..Len(AnomalyOrder)}

\* The latencies and the wording of the responses are not part of this state;
\* a detector that reports reports a score at which it does report.
AnomalyScore(type) ==
  CASE type = "baseline_deviation"  -> 7000
    [] type = "temporal_drift"      -> 8000
    [] type = "pattern_anomaly"     -> 9000
    [] type = "statistical_anomaly" -> 2500
    [] type = "response_loop"       -> 10000

\* The detectors that can report, given the baselines after the baseline step,
\* the history and the recent responses handed to detect_anomalies.
CanReport(bl, s, history, responses) ==
  { t \in AnomalyTypes :
      \/ t = "baseline_deviation" /\ s \in DOMAIN bl
      \/ t = "temporal_drift" /\ Len(history) >= MinForDrift
      \/ t = "pattern_anomaly" /\ Len(history) >= MinForPatterns
      \/ t = "statistical_anomaly" /\ Len(history) >= MinForStatistics
      \/ t = "response_loop" /\ Len(responses) >= MinForLoops }

\* anomalies_detected for the set of detectors that reported.
AnomaliesDetected(found) == SelectSeq(AnomalyOrder, LAMBDA t : t \in found)

\* overall_anomaly_score: the largest score, 0.0 without any.
OverallAnomalyScore(found) ==
  IF found = {} THEN 0
  ELSE CHOOSE m \in {AnomalyScore(t) : t \in found} :
         \A t \in found : AnomalyScore(t) <= m

\* The places where a collaborator of process_interaction can raise.
Faults == {"none", "track", "history", "detect", "metrics", "add", "merge"}

\* A mutant of AbortingFaults: _record_metrics and _persist_data without their
\* own try/except.
AbortingFaultsAll == {"track", "history", "detect", "metrics", "add", "merge"}

\* The faults no inner try/except catches; they reach the except clause of
\* process_interaction.
AbortingFaults == {"track", "history", "detect"}

\* A mutant of SafeResult: the results collected before the exception are kept.
SafeResultPartial(e, behavior, found) ==
  [ behavior |-> behavior, anomalies_detected |-> AnomaliesDetected(found),
    overall_anomaly_score |-> OverallAnomalyScore(found),
    interaction_count |-> 0, error |-> e ]

\* The minimal safe response of the except clause.
SafeResult(e, behavior, found) ==
  [ behavior |-> NoBehavior, anomalies_detected |-> << >>,
    overall_anomaly_score |-> 0, interaction_count |-> 0, error |-> e ]

\* The comprehensive results of step 5.
FullResult(behavior, found, count) ==
  [ behavior |-> behavior, anomalies_detected |-> AnomaliesDetected(found),
    overall_anomaly_score |-> OverallAnomalyScore(found),
    interaction_count |-> count, error |-> "none" ]

\* The steps of process_interaction in the order of its statements.
PipelineOrder == << "track", "history", "detect", "metrics", "persist" >>

\* The steps process_interaction enters when the collaborator at fault raises:
\* a raise in one of the first three leaves the try block, the metrics and the
\* persistence step are entered when their sink is configured.
StepsRun(fault) ==
  LET upTo(k) == SubSeq(PipelineOrder, 1, k)
      metrics == IF monitoring.metrics THEN << "metrics" >> ELSE << >>
      persist == IF monitoring.persistence THEN << "persist" >> ELSE << >>
  IN  CASE fault = "track" -> upTo(1)
        [] fault = "history" -> upTo(2)
        [] fault = "detect" -> upTo(3)
        [] OTHER -> upTo(3) \o metrics \o persist

NoRows == [ behavior |-> 0, anomaly |-> 0, baseline |-> 0 ]

\* A mutant of RowsQueued: the baseline is merged whatever the history.
RowsQueuedBaselineAlways(fault, found, history) ==
  IF fault \in AbortingFaults \/ ~monitoring.persistence \/ fault = "add"
  THEN NoRows
  ELSE [ behavior |-> 1, anomaly |-> Cardinality(found),
         baseline |-> IF fault # "merge" THEN 1 ELSE 0 ]

\* _persist_data: the rows handed to db_session.add and db_session.merge. A
\* raising add leaves the try block before anything is queued; a raising merge
\* is caught inside _update_baseline_if_needed.
RowsQueued(fault, found, history) ==
  IF fault \in AbortingFaults \/ ~monitoring.persistence \/ fault = "add"
  THEN NoRows
  ELSE [ behavior |-> 1, anomaly |-> Cardinality(found),
         baseline |-> IF Len(history) >= min_interactions /\ fault # "merge"
                      THEN 1 ELSE 0 ]

\* _update_baseline_if_needed, as far as the baselines go.
BaselineIfNeeded(bl, s, history) ==
  IF Len(history) >= min_interactions
  THEN EstablishedWith(bl, s, Len(history), MeanDepth(history))
  ELSE bl

\* A mutant of ProcessInteraction: a raise in a later step undoes the tracking.
ProcessInteractionRollingBack(s, text, fault, found) ==
  /\ Len(Lookup(session_behaviors, s)) < MaxInteractions
  /\ fault = "metrics" => monitoring.metrics
  /\ fault \in {"add", "merge"} => monitoring.persistence
  /\ IF fault \in AbortingFaults
     THEN /\ found = {}
          /\ UNCHANGED << trackerVars, baselines >>
          /\ monitor_call' =
               [ op |-> "process_interaction", session |-> s, fault |-> fault,
                 behavior |-> NoBehavior, detected |-> {},
                 result |-> SafeResult(fault, NoBehavior, {}),
                 steps |-> StepsRun(fault), rows |-> NoRows ]
     ELSE /\ Track(s, text)
          /\ \E behavior \in {NewBehavior(s, text)},
                history \in {Recent(session_behaviors'[s], DefaultBehaviorCount)},
                responses \in {Recent(session_responses'[s], DefaultResponseCount)} :
               \E detecting \in {IF fault = "history" THEN baselines
                                 ELSE LazilyEstablishedFrom(baselines, s, history)} :
                 /\ fault \in {"history", "detect"} => found = {}
                 /\ found \subseteq CanReport(detecting, s, history, responses)
                 /\ fault = "merge" => Len(history) >= min_interactions
                 /\ baselines' =
                      IF fault \in AbortingFaults \/ fault = "add" \/ ~monitoring.persistence
                      THEN detecting
                      ELSE BaselineIfNeeded(detecting, s, history)
                 /\ monitor_call' =
                      [ op |-> "process_interaction", session |-> s, fault |-> fault,
                        behavior |-> behavior,
                        detected |-> found,
                        result |-> IF fault \in AbortingFaults
                                   THEN SafeResult(fault, behavior, found)
                                   ELSE FullResult(behavior, found,
                                                   Len(session_behaviors'[s])),
                        steps |-> StepsRun(fault),
                        rows |-> RowsQueued(fault, found, history) ]
  /\ UNCHANGED << min_interactions, update_frequency_hours, baseline_call, monitoring >>

\* process_interaction(s, request, response, start_time) where response.response
\* is text, the collaborator at fault raises, and the detectors in found report.
ProcessInteraction(s, text, fault, found) ==
  /\ Len(Lookup(session_behaviors, s)) < MaxInteractions
  /\ fault = "metrics" => monitoring.metrics
  /\ fault \in {"add", "merge"} => monitoring.persistence
  /\ IF fault = "track"
     THEN /\ found = {}
          /\ UNCHANGED << trackerVars, baselines >>
          /\ monitor_call' =
               [ op |-> "process_interaction", session |-> s, fault |-> fault,
                 behavior |-> NoBehavior, detected |-> {},
                 result |-> SafeResult(fault, NoBehavior, {}),
                 steps |-> StepsRun(fault), rows |-> NoRows ]
     ELSE /\ Track(s, text)
          /\ \E behavior \in {NewBehavior(s, text)},
                history \in {Recent(session_behaviors'[s], DefaultBehaviorCount)},
                responses \in {Recent(session_responses'[s], DefaultResponseCount)} :
               \E detecting \in {IF fault = "history" THEN baselines
                                 ELSE LazilyEstablishedFrom(baselines, s, history)} :
                 /\ fault \in {"history", "detect"} => found = {}
                 /\ found \subseteq CanReport(detecting, s, history, responses)
                 /\ fault = "merge" => Len(history) >= min_interactions
                 /\ baselines' =
                      IF fault \in AbortingFaults \/ fault = "add" \/ ~monitoring.persistence
                      THEN detecting
                      ELSE BaselineIfNeeded(detecting, s, history)
                 /\ monitor_call' =
                      [ op |-> "process_interaction", session |-> s, fault |-> fault,
                        behavior |-> behavior,
                        detected |-> found,
                        result |-> IF fault \in AbortingFaults
                                   THEN SafeResult(fault, behavior, found)
                                   ELSE FullResult(behavior, found,
                                                   Len(session_behaviors'[s])),
                        steps |-> StepsRun(fault),
                        rows |-> RowsQueued(fault, found, history) ]
  /\ UNCHANGED << min_interactions, update_frequency_hours, baseline_call, monitoring >>

Interaction ==
  \E s \in MonitorSessions, text \in MonitorTexts, fault \in Faults,
     found \in SUBSET AnomalyTypes :
    ProcessInteraction(s, text, fault, found)

\* BehavioralMonitoringService.clear_session_data: the tracker's data only.
ServiceClearSessionData ==
  \E s \in MonitorSessions :
    /\ Clear(s)
    /\ UNCHANGED << baselineVars, monitorVars >>

\* An interaction in which no collaborator raises and no detector reports.
HealthyInteraction ==
  \E s \in MonitorSessions, text \in MonitorTexts :
    ProcessInteraction(s, text, "none", {})

NoCall ==
  [ op |-> "none", session |-> "s1", fault |-> "none", behavior |-> NoBehavior,
    detected |-> {}, result |-> SafeResult("none", NoBehavior, {}),
    steps |-> << >>, rows |-> NoRows ]

\* BehavioralMonitoringService() without a metrics collector or a database session.
MonitorInit ==
  /\ monitoring = [ metrics |-> FALSE, persistence |-> FALSE ]
  /\ monitor_call = NoCall

\* BehavioralMonitoringService(metrics_collector, db_session), each given or not.
MonitorConfiguredInit ==
  /\ monitoring \in [ metrics : BOOLEAN, persistence : BOOLEAN ]
  /\ monitor_call = NoCall

\* -------------------------------------------------------- AnomalyDetector

\* The scores a detector can report: detect_deviation at or above the anomaly
\* threshold, a drift score at or above the drift threshold, a pattern strength
\* above 0.8, the outlier metrics over 4, the confidence of a response loop.
ScoreChoices(type) ==
  CASE type = "baseline_deviation"  -> {7000, 10000}
    [] type = "temporal_drift"      -> {8000, 10000}
    [] type = "pattern_anomaly"     -> {9000, 10000}
    [] type = "statistical_anomaly" -> {2500, 5000, 7500}
    [] type = "response_loop"       -> {6000, 8000, 9000, 10000}

AllScores == UNION {ScoreChoices(t) : t \in AnomalyTypes}

\* What the five detectors return in one call: a score for each that reports.
DetectorOutcomes ==
  UNION { {sc \in [F -> AllScores] : \A t \in F : sc[t] \in ScoreChoices(t)} :
          F \in SUBSET AnomalyTypes }

\* The sum of the values of the dictionary scores.
RECURSIVE SumOfScores(_)
SumOfScores(scores) ==
  IF DOMAIN scores = {} THEN 0
  ELSE LET t == CHOOSE u \in DOMAIN scores : TRUE
       IN  scores[t] + SumOfScores([u \in DOMAIN scores \ {t} |-> scores[u]])

\* A mutant of OverallScore: the scores added up.
OverallScoreSummed(scores) == SumOfScores(scores)

\* max(anomaly_scores.values()) if anomaly_scores is not empty, else the 0.0
\* the result starts with.
OverallScore(scores) ==
  IF DOMAIN scores = {} THEN 0
  ELSE CHOOSE m \in {scores[t] : t \in DOMAIN scores} :
         \A t \in DOMAIN scores : scores[t] <= m

\* The numbers of behaviors detect_anomalies is handed, and the ages in hours
\* of the latest of them.
BehaviorCounts == {0, 1, FullDataBehaviors \div 2, FullDataBehaviors}
LatestAges == {0, RecencyHours \div 2, RecencyHours, 2 * RecencyHours}

Least(a, b) == IF a <= b THEN a ELSE b
Greatest(a, b) == IF a >= b THEN a ELSE b

\* _calculate_confidence: the mean of min(len / 20, 1) and, when there is a
\* behavior, max(0, 1 - age / 24 hours) of the latest one, else 0.
CalculateConfidence(count, age) ==
  LET data_confidence    == Least((count * Unit) \div FullDataBehaviors, Unit)
      recency_confidence ==
        IF count > 0
        THEN Greatest(0, Unit - (age * Unit) \div RecencyHours)
        ELSE 0
  IN  (data_confidence + recency_confidence) \div 2

HighScoreNote     == "High anomaly score detected - immediate investigation recommended"
LowConfidenceNote == "Low confidence in results - collect more behavioral data"
NoAnomaliesNote   == "No significant anomalies detected - continue monitoring"

\* The string _generate_recommendations appends for an anomaly of a type.
RecommendationFor(type) ==
  CASE type = "baseline_deviation"  -> "Monitor agent performance for consistency issues"
    [] type = "temporal_drift"      -> "Check for gradual degradation in agent capabilities"
    [] type = "pattern_anomaly"     -> "Review interaction patterns for unusual behavior"
    [] type = "statistical_anomaly" -> "Analyze specific metrics showing statistical outliers"
    [] type = "response_loop"       -> "Agent may be stuck in response loop - consider intervention"

\* A mutant of GenerateRecommendations: the note on no anomalies is appended
\* whenever none fired, whatever the list holds.
GenerateRecommendationsNotingNoAnomalies(overall, detected, confidence) ==
  (IF overall >= HighScoreThreshold THEN << HighScoreNote >> ELSE << >>)
    \o [i \in 1..Len(detected) |-> RecommendationFor(detected[i])]
    \o (IF confidence < LowConfidenceThreshold THEN << LowConfidenceNote >> ELSE << >>)
    \o (IF detected = << >> THEN << NoAnomaliesNote >> ELSE << >>)

\* _generate_recommendations: the note on a high overall score, one string
\* for each anomaly detected in order, the note on low confidence, and the
\* note on no anomalies when nothing was appended.
GenerateRecommendations(overall, detected, confidence) ==
  LET collected ==
        (IF overall >= HighScoreThreshold THEN << HighScoreNote >> ELSE << >>)
          \o [i \in 1..Len(detected) |-> RecommendationFor(detected[i])]
          \o (IF confidence < LowConfidenceThreshold
              THEN << LowConfidenceNote >> ELSE << >>)
  IN  IF collected = << >> THEN << NoAnomaliesNote >> ELSE collected

\* detect_anomalies when the detectors return outcomes: the anomaly_scores,
\* the types of anomalies_detected in order, and overall_anomaly_score.
\* the confidence and the recommendations computed from them.
DetectionResult(outcomes, count, age) ==
  [ scores |-> outcomes, behaviors |-> count, age |-> age, done |-> TRUE,
    detected |-> AnomaliesDetected(DOMAIN outcomes),
    overall |-> OverallScore(outcomes),
    confidence |-> CalculateConfidence(count, age),
    recommendations |->
      GenerateRecommendations(OverallScore(outcomes),
                              AnomaliesDetected(DOMAIN outcomes),
                              CalculateConfidence(count, age)) ]

\* A call that has not returned yet, on count behaviors the latest of which
\* is age hours old.
PendingDetectionOn(outcomes, count, age) ==
  [ scores |-> outcomes, behaviors |-> count, age |-> age, done |-> FALSE,
    detected |-> << >>, overall |-> 0, confidence |-> 0,
    recommendations |-> << >> ]

\* A call on a session without behaviors.
PendingDetection(outcomes) == PendingDetectionOn(outcomes, 0, 0)

DetectAnomaliesCall ==
  /\ ~anomaly_call.done
  /\ anomaly_call' = DetectionResult(anomaly_call.scores,
                                     anomaly_call.behaviors, anomaly_call.age)
  /\ UNCHANGED loop_call

\* ---------------------------------------------- TemporalBehaviorAnalyzer

\* The ages, in hours, of the behaviors handed to detect_behavioral_drift, and
\* the time windows it is called with.
DriftAges == {1, 24, 30}

DriftWindows == {1, DefaultTimeWindowHours}

\* The lists of behaviors, each with its timestamp.
DriftBehaviorLists ==
  UNION { [1..k -> {[timestamp |-> now - a * SecondsPerHour] : a \in DriftAges}] :
          k \in 0..MaxDriftBehaviors }

\* The primary drift type and the mean of the four drift components that the
\* comparison of the early and the late half arrives at.
DriftComparisons ==
  [ drift_type : {"latency", "length", "clarification", "confidence"},
    drift_score : {0, 5000, 9000} ]

\* [b for b in behaviors if b.timestamp >= cutoff_time]
RecentBehaviors(behaviors, window) ==
  SelectSeq(behaviors, LAMBDA b : b.timestamp >= now - window * SecondsPerHour)

\* A mutant of TooFewRecent: one recent behavior is enough.
TooFewRecentOnlyNone(recent) == Len(recent) < 1

\* len(recent_behaviors) < 2
TooFewRecent(recent) == Len(recent) < MinRecentForDrift

\* detect_behavioral_drift(behaviors, time_window_hours): the drift_score and
\* drift_type of the DriftScore returned.
DetectBehavioralDrift(behaviors, window, comparison) ==
  IF Len(behaviors) < MinForDrift
  THEN [ drift_score |-> 0, drift_type |-> "insufficient_data" ]
  ELSE IF TooFewRecent(RecentBehaviors(behaviors, window))
       THEN [ drift_score |-> 0, drift_type |-> "insufficient_recent_data" ]
       ELSE comparison

\* _detect_drift_anomaly(session_behaviors): whether it returns an anomaly.
DriftAnomalyFires(behaviors, comparison) ==
  /\ Len(behaviors) >= MinForDrift
  /\ DetectBehavioralDrift(behaviors, DefaultTimeWindowHours, comparison).drift_score
       >= DriftThreshold

\* A call that has not returned yet.
PendingDrift(behaviors, window, comparison) ==
  [ behaviors |-> behaviors, window |-> window, comparison |-> comparison,
    done |-> FALSE, result |-> [ drift_score |-> 0, drift_type |-> "none" ],
    fires |-> FALSE ]

NoDriftCall ==
  PendingDrift(<< >>, DefaultTimeWindowHours,
               [ drift_type |-> "latency", drift_score |-> 0 ])

\* detect_behavioral_drift with the window of the call, and
\* _detect_drift_anomaly on the same behaviors.
DetectBehavioralDriftCall ==
  /\ ~drift_call.done
  /\ drift_call' =
       [ drift_call EXCEPT
           !.done = TRUE,
           !.result = DetectBehavioralDrift(drift_call.behaviors, drift_call.window,
                                            drift_call.comparison),
           !.fires = DriftAnomalyFires(drift_call.behaviors, drift_call.comparison) ]

\* The response texts handed to detect_response_loops; the third one stands
\* for a text of 120 characters.
LoopTexts == Texts \cup {"report"}

LoopTextLength(t) == IF t \in Texts THEN TextLength(t) ELSE 120

\* The slice text[:k].
Prefix(text, k) ==
  [ of |-> text, chars |-> IF LoopTextLength(text) < k THEN LoopTextLength(text) ELSE k ]

\* set(lst)
ValuesOf(lst) == {lst[i] : i \in 1..Len(lst)}

\* len(set(last_five)) / len(last_five), in units of 1/10000.
UniquenessRatio(last_five) == (Cardinality(ValuesOf(last_five)) * Unit) \div Len(last_five)

\* A mutant of IsLowDiversity: the threshold at 0.4.
IsLowDiversityBelowTwoFifths(ratio) == ratio < 4000

\* uniqueness_ratio < 0.6
IsLowDiversity(ratio) == ratio < 6000

\* None
NoLoop == [ loop_type |-> "none" ]

ExactRepetition(last_three) ==
  [ loop_type |-> "exact_repetition", pattern_length |-> 3,
    repeated_text |-> Prefix(last_three[1], 100), confidence |-> Unit ]

LowDiversity(ratio) ==
  [ loop_type |-> "low_diversity", pattern_length |-> 5,
    uniqueness_ratio |-> ratio, confidence |-> Unit - ratio ]

AlternatingPattern(last_four) ==
  [ loop_type |-> "alternating_pattern", pattern_length |-> 2,
    pattern_texts |-> << Prefix(last_four[1], 50), Prefix(last_four[2], 50) >>,
    confidence |-> 9000 ]

\* A mutant of LaterLoopChecks: the alternating check before the low
\* diversity check.
LaterLoopChecksAlternatingFirst(recent_responses) ==
  IF /\ Len(recent_responses) >= 4
     /\ PySuffix(recent_responses, 4)[1] = PySuffix(recent_responses, 4)[3]
     /\ PySuffix(recent_responses, 4)[2] = PySuffix(recent_responses, 4)[4]
  THEN AlternatingPattern(PySuffix(recent_responses, 4))
  ELSE IF /\ Len(recent_responses) >= 5
          /\ IsLowDiversity(UniquenessRatio(PySuffix(recent_responses, 5)))
       THEN LowDiversity(UniquenessRatio(PySuffix(recent_responses, 5)))
       ELSE NoLoop

\* The checks after the exact repetition check: low diversity of the last
\* five, then an alternating pattern in the last four.
LaterLoopChecks(recent_responses) ==
  IF /\ Len(recent_responses) >= 5
     /\ IsLowDiversity(UniquenessRatio(PySuffix(recent_responses, 5)))
  THEN LowDiversity(UniquenessRatio(PySuffix(recent_responses, 5)))
  ELSE IF /\ Len(recent_responses) >= 4
          /\ PySuffix(recent_responses, 4)[1] = PySuffix(recent_responses, 4)[3]
          /\ PySuffix(recent_responses, 4)[2] = PySuffix(recent_responses, 4)[4]
       THEN AlternatingPattern(PySuffix(recent_responses, 4))
       ELSE NoLoop

\* A mutant of DetectResponseLoops: the exact repetition check comes last.
DetectResponseLoopsRepetitionLast(recent_responses) ==
  IF Len(recent_responses) < MinForLoops THEN NoLoop
  ELSE IF LaterLoopChecks(recent_responses) # NoLoop
       THEN LaterLoopChecks(recent_responses)
       ELSE IF Cardinality(ValuesOf(PySuffix(recent_responses, 3))) = 1
            THEN ExactRepetition(PySuffix(recent_responses, 3))
            ELSE NoLoop

\* detect_response_loops(recent_responses)
DetectResponseLoops(recent_responses) ==
  IF Len(recent_responses) < MinForLoops THEN NoLoop
  ELSE IF Cardinality(ValuesOf(PySuffix(recent_responses, 3))) = 1
       THEN ExactRepetition(PySuffix(recent_responses, 3))
       ELSE LaterLoopChecks(recent_responses)

\* The lists of responses a call is made with.
ResponseLists == UNION { [1..k -> LoopTexts] : k \in 0..MaxResponses }

\* A call that has not returned yet.
PendingLoopCall(recent_responses) ==
  [ responses |-> recent_responses, done |-> FALSE, result |-> NoLoop ]

NoLoopCall == PendingLoopCall(<< >>)

DetectResponseLoopsCall ==
  /\ ~loop_call.done
  /\ loop_call' = [ responses |-> loop_call.responses, done |-> TRUE,
                    result |-> DetectResponseLoops(loop_call.responses) ]
  /\ UNCHANGED anomaly_call

\* The behaviors handed to analyze_conversation_flow: response latencies in
\* milliseconds, message lengths in characters, clarification frequencies.
FlowLatencies == {10, 400}
FlowLengths == {0, 20, 400}
FlowClarifications == {0, Unit}

FlowBehaviors ==
  [ response_latency_ms : FlowLatencies, message_length : FlowLengths,
    clarification_frequency : FlowClarifications ]

FlowBehaviorLists == UNION {[1..n -> FlowBehaviors] : n \in 0..MaxFlowBehaviors}

\* The largest r in lo..hi with r * r <= n.
RECURSIVE RootBetween(_, _, _)
RootBetween(n, lo, hi) ==
  IF lo = hi THEN lo
  ELSE LET mid == (lo + hi + 1) \div 2
       IN  IF mid * mid <= n THEN RootBetween(n, mid, hi)
           ELSE RootBetween(n, lo, mid - 1)

\* statistics.stdev(values) in hundredths, rounded down: the square root of
\* the sum of squared distances from the mean over len(values) - 1, which is
\* never above the largest of the values when none is negative.
StdevHundredths(values) ==
  LET n        == Len(values)
      squares  == SumSeq([i \in 1..n |-> values[i] * values[i]])
      spread   == n * squares - SumSeq(values) * SumSeq(values)
      pairs    == n * (n - 1)
      variance == (spread \div pairs) * Unit + ((spread % pairs) * Unit) \div pairs
      largest  == CHOOSE v \in {values[i] : i \in 1..n} :
                    \A i \in 1..n : values[i] <= v
  IN  RootBetween(variance, 0, 100 * largest)

\* _coefficient_of_variation: 0 for fewer than 2 values or a mean of 0, else
\* stdev / mean.
CoefficientOfVariation(values) ==
  IF Len(values) < 2 THEN 0
  ELSE IF SumSeq(values) = 0 THEN 0
  ELSE (StdevHundredths(values) * Len(values) * 100) \div SumSeq(values)

\* _calculate_flow_consistency: 1 for fewer than 2 behaviors, else the mean
\* of 1 - cv of the latencies and 1 - cv of the message lengths.
CalculateFlowConsistency(behaviors) ==
  IF Len(behaviors) < 2 THEN Unit
  ELSE LET latencies == [i \in 1..Len(behaviors) |-> behaviors[i].response_latency_ms]
           lengths   == [i \in 1..Len(behaviors) |-> behaviors[i].message_length]
           latency_consistency == Unit - CoefficientOfVariation(latencies)
           length_consistency  == Unit - CoefficientOfVariation(lengths)
       IN  (latency_consistency + length_consistency) \div 2

\* _calculate_engagement_level: 0 without behaviors, else the mean of
\* min(avg_length / 200, 1) and max(0, 1 - avg_clarification).
CalculateEngagementLevel(behaviors) ==
  IF behaviors = << >> THEN 0
  ELSE LET n == Len(behaviors)
           total_length == SumSeq([i \in 1..n |-> behaviors[i].message_length])
           total_clarification ==
             SumSeq([i \in 1..n |-> behaviors[i].clarification_frequency])
           length_score == Least((total_length * Unit) \div (n * FullEngagementLength), Unit)
           clarification_score == Greatest(0, Unit - total_clarification \div n)
       IN  (length_score + clarification_score) \div 2

\* analyze_conversation_flow: all scores 0 for no behaviors, else each score
\* from its own function.
AnalyzeConversationFlow(behaviors) ==
  IF behaviors = << >>
  THEN [ flow_consistency_score |-> 0, engagement_level |-> 0 ]
  ELSE [ flow_consistency_score |-> CalculateFlowConsistency(behaviors),
         engagement_level |-> CalculateEngagementLevel(behaviors) ]

PendingFlow(behaviors) ==
  [ behaviors |-> behaviors, done |-> FALSE,
    result |-> [ flow_consistency_score |-> 0, engagement_level |-> 0 ] ]

NoFlowCall == PendingFlow(<< >>)

AnalyzeConversationFlowCall ==
  /\ ~flow_call.done
  /\ flow_call' = [ flow_call EXCEPT !.done = TRUE,
                      !.result = AnalyzeConversationFlow(flow_call.behaviors) ]

\* No call of the other functions checked on their own is under way.
ProbesInit ==
  /\ inject_call = NoInjectCall
  /\ deviation_call = NoDeviationCall
  /\ metrics_call = NoMetricsCall
  /\ drift_call = NoDriftCall
  /\ ConcurrencyInit
  /\ flow_call = NoFlowCall

\* No call of the analysis functions is under way.
AnalysisInit ==
  /\ anomaly_call = PendingDetection(<< >>)
  /\ loop_call = NoLoopCall
  /\ ProbesInit

\* ------------------------------------------------------- specifications

BehaviorInit == TrackerInit /\ BaselineInit /\ MonitorInit /\ AnalysisInit

Init == InjInit /\ AgentInit /\ BehaviorInit

\* The injector on its own.
Next ==
  \/ (ShouldInjectForced \/ ShouldInjectUnforced \/ ResetSessionState)
       /\ UNCHANGED << agentVars, behaviorVars >>
  \/ Tick /\ UNCHANGED << agentVars, behaviorVars >>

Spec == Init /\ [][Next]_vars

\* The request pipeline around the injector, with the default multiplier; time
\* passes while a request sleeps.
AgentSpecInit == Init /\ failure_rate_multiplier = 1

AgentNext ==
  \/ ProcessForced /\ UNCHANGED behaviorVars
  \/ ProcessUnforced /\ UNCHANGED behaviorVars

SpecAgent == AgentSpecInit /\ [][AgentNext]_vars

\* The injector as FailureInjector() constructs it and the agent before its
\* first request; the behavioral components do not touch them.
IdleInit == InjInit /\ AgentInit /\ ~probabilistic_mode /\ failure_rate_multiplier = 1

\* The behavioral tracking of a turn the agent has processed.
TrackTurn ==
  \E s \in InjSessions, text \in MonitorTexts :
    /\ Len(Lookup(session_behaviors, s)) < requests
    /\ Track(s, text)

\* A session over its life: requests, the tracking of their turns, resets.
SessionNext ==
  \/ ProcessForced /\ UNCHANGED behaviorVars
  \/ ProcessUnforced /\ UNCHANGED behaviorVars
  \/ TrackTurn /\ UNCHANGED << now, injVars, agentVars, analysisVars, probeVars, baselineVars, monitorVars >>
  \/ ResetSession

SpecSession == AgentSpecInit /\ [][SessionNext]_vars

\* The three per-session stores side by side: what the tracker holds for a
\* session, its baseline, and its failure-injection state.
SessionView(t) ==
  [ tracked   |-> t \in DOMAIN session_behaviors \/ t \in DOMAIN session_responses,
    behaviors |-> Lookup(session_behaviors, t),
    responses |-> Lookup(session_responses, t),
    baseline  |-> GetBaseline(baselines, t),
    injector  |-> IF t \in DOMAIN session_states THEN session_states[t]
                  ELSE FreshSessionState ]

\* The draws of a probabilistic evaluation that selects nothing, and of one
\* that selects the first mode of the catalog.
IsolationDraws == {AllHigh, [AllHigh EXCEPT ![1] = 0]}

\* One call for session s: track_interaction, clear_session_data,
\* establish_baseline, update_baseline, remove_baseline, a probabilistic
\* evaluation, or reset_session_state.
SessionOp(s) ==
  \/ /\ \E text \in MonitorTexts :
           /\ Len(Lookup(session_behaviors, s)) < MaxMessages
           /\ Track(s, text)
     /\ UNCHANGED << now, injVars, agentVars, analysisVars, probeVars, baselineVars, monitorVars >>
  \/ /\ Clear(s)
     /\ UNCHANGED << now, injVars, agentVars, analysisVars, probeVars, baselineVars, monitorVars >>
  \/ /\ \E n \in 0..MaxBatch : baselines' = Established(baselines, s, n)
     /\ UNCHANGED << now, injVars, agentVars, analysisVars, probeVars, trackerVars, monitorVars,
                     min_interactions, update_frequency_hours, baseline_call >>
  \/ /\ \E n \in 0..MaxBatch :
           /\ s \in DOMAIN baselines =>
                baselines[s].interaction_count + n <= MaxInteractionCount
           /\ baselines' = Updated(baselines, s, n)
     /\ UNCHANGED << now, injVars, agentVars, analysisVars, probeVars, trackerVars, monitorVars,
                     min_interactions, update_frequency_hours, baseline_call >>
  \/ /\ baselines' = Drop(baselines, s)
     /\ UNCHANGED << now, injVars, agentVars, analysisVars, probeVars, trackerVars, monitorVars,
                     min_interactions, update_frequency_hours, baseline_call >>
  \/ /\ s \in DOMAIN session_states =>
          session_states[s].message_count < MaxRequests
     /\ \E draws \in IsolationDraws : ShouldInjectFailure(s, NoMode, draws)
     /\ UNCHANGED << now, probabilistic_mode, failure_rate_multiplier,
                     agentVars, behaviorVars >>
  \/ /\ ResetState(s)
     /\ UNCHANGED << now, probabilistic_mode, failure_rate_multiplier,
                     agentVars, behaviorVars >>

\* A probabilistic injector, a tracker and a baseline manager that updates
\* without throttling, serving two sessions.
SessionsSpecInit ==
  /\ InjInit /\ AgentInit
  /\ probabilistic_mode
  /\ failure_rate_multiplier = 1
  /\ TrackerInit /\ BaselineConfiguredInit /\ MonitorInit /\ AnalysisInit
  /\ min_interactions = DefaultMinInteractions
  /\ update_frequency_hours = 0

SessionsNext == \E s \in Sessions : SessionOp(s)

SpecSessions == SessionsSpecInit /\ [][SessionsNext]_vars

\* The tracker on its own.
TrackerSpecInit == IdleInit /\ BehaviorInit

TrackerNext ==
  \/ TrackInteraction /\ UNCHANGED << now, injVars, agentVars, analysisVars, probeVars, baselineVars, monitorVars >>
  \/ ClearSessionData /\ UNCHANGED << now, injVars, agentVars, analysisVars, probeVars, baselineVars, monitorVars >>

SpecTracker == TrackerSpecInit /\ [][TrackerNext]_vars

\* The baseline manager on its own, under each configuration.
BaselineSpecInit ==
  IdleInit /\ TrackerInit /\ BaselineConfiguredInit /\ MonitorInit /\ AnalysisInit

BaselineNext ==
  \/ (EstablishBaseline \/ UpdateBaseline \/ DetectAnomalies \/ RemoveBaseline)
       /\ UNCHANGED << now, injVars, agentVars, analysisVars, probeVars, trackerVars, monitorVars,
                       min_interactions, update_frequency_hours >>
  \/ Elapse /\ UNCHANGED << injVars, agentVars, behaviorVars >>

SpecBaseline == BaselineSpecInit /\ [][BaselineNext]_vars

\* The monitoring service over its tracker and its baseline manager.
MonitorSpecInit ==
  IdleInit /\ TrackerInit /\ BaselineInit /\ MonitorConfiguredInit /\ AnalysisInit

MonitorNext ==
  \/ Interaction /\ UNCHANGED << now, injVars, agentVars, analysisVars, probeVars >>
  \/ ServiceClearSessionData /\ UNCHANGED << now, injVars, agentVars, analysisVars, probeVars >>

SpecMonitor == MonitorSpecInit /\ [][MonitorNext]_vars

\* The monitoring pipeline over time: interactions that go well, with the
\* baseline removed now and then.
PipelineNext ==
  \/ HealthyInteraction /\ UNCHANGED << now, injVars, agentVars, analysisVars, probeVars >>
  \/ Elapse /\ UNCHANGED << injVars, agentVars, behaviorVars >>
  \/ RemoveBaseline
       /\ UNCHANGED << now, injVars, agentVars, analysisVars, probeVars, trackerVars, monitorVars,
                       min_interactions, update_frequency_hours >>

SpecPipeline == MonitorSpecInit /\ [][PipelineNext]_vars

\* detect_anomalies on its own, for every outcome of the five detectors.
DetectorSpecInit ==
  /\ IdleInit /\ TrackerInit /\ BaselineInit /\ MonitorInit
  /\ anomaly_call \in {PendingDetectionOn(sc, n, age) :
                          sc \in DetectorOutcomes, n \in BehaviorCounts,
                          age \in LatestAges}
  /\ loop_call = NoLoopCall
  /\ ProbesInit

DetectorNext ==
  DetectAnomaliesCall
    /\ UNCHANGED << now, injVars, agentVars, trackerVars, baselineVars, monitorVars,
                 probeVars >>

SpecDetector == DetectorSpecInit /\ [][DetectorNext]_vars

\* detect_response_loops on its own, for every list of responses.
LoopSpecInit ==
  /\ IdleInit /\ TrackerInit /\ BaselineInit /\ MonitorInit
  /\ anomaly_call = PendingDetection(<< >>)
  /\ loop_call \in {PendingLoopCall(r) : r \in ResponseLists}
  /\ ProbesInit

LoopNext ==
  DetectResponseLoopsCall
    /\ UNCHANGED << now, injVars, agentVars, trackerVars, baselineVars, monitorVars,
                 probeVars >>

SpecLoops == LoopSpecInit /\ [][LoopNext]_vars

\* inject_integration_failure on its own, called for any mode.
InjectionSpecInit == IdleInit /\ TrackerInit /\ BaselineInit /\ MonitorInit /\ AnalysisInit

InjectionNext ==
  \/ BeginInjection /\ UNCHANGED << injVars, agentVars, trackerVars, baselineVars,
                                    monitorVars, analysisVars, deviation_call,
                  metrics_call, drift_call, concurrencyVars, flow_call >>
  \/ SleepForTimeout /\ UNCHANGED << injVars, agentVars, trackerVars, baselineVars,
                                     monitorVars, analysisVars, deviation_call,
                  metrics_call, drift_call, concurrencyVars, flow_call >>
  \/ RaiseTimeout /\ UNCHANGED << injVars, agentVars, trackerVars, baselineVars,
                                  monitorVars, analysisVars, deviation_call,
                  metrics_call, drift_call, concurrencyVars, flow_call >>
  \/ RaiseIntegrationError /\ UNCHANGED << injVars, agentVars, trackerVars, baselineVars,
                                           monitorVars, analysisVars, deviation_call,
                  metrics_call, drift_call, concurrencyVars, flow_call >>
  \/ ReturnWithoutRaising /\ UNCHANGED << injVars, agentVars, trackerVars, baselineVars,
                                          monitorVars, analysisVars, deviation_call,
                  metrics_call, drift_call, concurrencyVars, flow_call >>

SpecInjection == InjectionSpecInit /\ [][InjectionNext]_vars

\* detect_deviation on its own, for every baseline and pair of behaviors.
DeviationSpecInit ==
  /\ IdleInit /\ TrackerInit /\ BaselineInit /\ MonitorInit
  /\ anomaly_call = PendingDetection(<< >>)
  /\ loop_call = NoLoopCall
  /\ inject_call = NoInjectCall
  /\ metrics_call = NoMetricsCall
  /\ drift_call = NoDriftCall
  /\ ConcurrencyInit
  /\ flow_call = NoFlowCall
  /\ deviation_call \in
       { PendingDeviation(baseline, behavior, other) :
           baseline \in DeviationBaselines, behavior \in DeviationBehaviors,
           other \in DeviationLatencies }

DeviationNext ==
  DetectDeviationCalls
    /\ UNCHANGED << now, injVars, agentVars, trackerVars, baselineVars, monitorVars,
                    analysisVars, inject_call, metrics_call, drift_call, concurrencyVars, flow_call >>

SpecDeviation == DeviationSpecInit /\ [][DeviationNext]_vars

\* The tracker with its session metrics read at any moment.
MetricsSpecInit == IdleInit /\ TrackerInit /\ BaselineInit /\ MonitorInit /\ AnalysisInit

MetricsNext ==
  \/ TrackMeasured
       /\ UNCHANGED << now, injVars, agentVars, baselineVars, monitorVars, analysisVars,
                       inject_call, deviation_call, drift_call, concurrencyVars, flow_call >>
  \/ ClearSessionData
       /\ UNCHANGED << now, injVars, agentVars, baselineVars, monitorVars, analysisVars,
                       probeVars >>
  \/ GetSessionMetricsCall
       /\ UNCHANGED << now, injVars, agentVars, baselineVars, monitorVars, analysisVars,
                       inject_call, deviation_call, drift_call, concurrencyVars, flow_call >>

SpecMetrics == MetricsSpecInit /\ [][MetricsNext]_vars

\* detect_behavioral_drift on its own, for every list of behaviors.
DriftSpecInit ==
  /\ IdleInit /\ TrackerInit /\ BaselineInit /\ MonitorInit
  /\ anomaly_call = PendingDetection(<< >>)
  /\ loop_call = NoLoopCall
  /\ inject_call = NoInjectCall
  /\ deviation_call = NoDeviationCall
  /\ metrics_call = NoMetricsCall
  /\ ConcurrencyInit
  /\ flow_call = NoFlowCall
  /\ drift_call \in
       { PendingDrift(behaviors, window, comparison) :
           behaviors \in DriftBehaviorLists, window \in DriftWindows,
           comparison \in DriftComparisons }

DriftNext ==
  DetectBehavioralDriftCall
    /\ UNCHANGED << now, injVars, agentVars, trackerVars, baselineVars, monitorVars,
                    analysisVars, inject_call, deviation_call, metrics_call, concurrencyVars, flow_call >>

SpecDrift == DriftSpecInit /\ [][DriftNext]_vars

\* analyze_conversation_flow on its own, for every list of behaviors.
FlowSpecInit ==
  /\ IdleInit /\ TrackerInit /\ BaselineInit /\ MonitorInit
  /\ anomaly_call = PendingDetection(<< >>)
  /\ loop_call = NoLoopCall
  /\ inject_call = NoInjectCall
  /\ deviation_call = NoDeviationCall
  /\ metrics_call = NoMetricsCall
  /\ drift_call = NoDriftCall
  /\ ConcurrencyInit
  /\ flow_call \in {PendingFlow(behaviors) : behaviors \in FlowBehaviorLists}

FlowNext ==
  AnalyzeConversationFlowCall
    /\ UNCHANGED << now, injVars, agentVars, trackerVars, baselineVars, monitorVars,
                    analysisVars, inject_call, deviation_call, metrics_call, drift_call,
                    concurrencyVars >>

SpecFlow == FlowSpecInit /\ [][FlowNext]_vars

\* Two threads in track_interaction for one session, step by step.
RaceSpecInit ==
  /\ IdleInit /\ RaceTrackerInit /\ BaselineInit /\ MonitorInit /\ AnalysisInit

RaceNext ==
  RaceStep
    /\ UNCHANGED << now, injVars, agentVars, baselineVars, monitorVars, analysisVars,
                    inject_call, deviation_call, metrics_call, drift_call, tasks, flow_call >>

SpecRace == RaceSpecInit /\ [][RaceNext]_vars

\* Several process_request tasks of one session on one event loop, with the
\* probabilistic injector at its default rate.
TasksSpecInit == Init /\ probabilistic_mode /\ failure_rate_multiplier = 1

TasksNext ==
  \/ TaskStep
       /\ UNCHANGED << now, probabilistic_mode, failure_rate_multiplier, inj_call,
                       last_selected, reset_since, agentVars, trackerVars, baselineVars,
                       monitorVars, analysisVars, inject_call, deviation_call,
                       metrics_call, drift_call, race, flow_call >>
  \/ Tick /\ UNCHANGED << agentVars, behaviorVars >>

SpecTasks == TasksSpecInit /\ [][TasksNext]_vars

\* ------------------------------------------------------------------ claims

\* The last call was a probabilistic selection for a session that had one before.
SelectedAgain ==
  /\ inj_call.op = "should_inject"
  /\ inj_call.via = "probabilistic"
  /\ inj_call.inject
  /\ inj_call.prev # NoTime

\* C1 as stated: after the probabilistic evaluator selected a failure for a
\* session at time T, it selects no further one for that session before T + 30
\* seconds, across any sequence of injector operations (resets included).
C1_CooldownAcrossAnyOperations ==
  SelectedAgain => inj_call.at - inj_call.prev >= CooldownSeconds

\* C1 amended: after the probabilistic evaluator selected a failure for a
\* session at time T, it selects no further one for that session before T + 30
\* seconds, whatever the draws, unless reset_session_state was called for the
\* session in between.
C1_CooldownUnlessReset ==
  (SelectedAgain /\ ~inj_call.reset_between)
    => inj_call.at - inj_call.prev >= CooldownSeconds

\* A second probabilistic selection with no reset since the first.
C1_Witness ==
  SelectedAgain /\ ~inj_call.reset_between

\* C2: a call that forces mode m returns (True, m), in probabilistic and
\* non-probabilistic mode and inside the cooldown alike; a call that forces no
\* mode on an injector that is not in probabilistic mode returns (False, None).
C2_ForcedAlwaysDefaultNever ==
  inj_call.op = "should_inject" =>
    /\ inj_call.forced # NoMode => (inj_call.inject /\ inj_call.mode = inj_call.forced)
    /\ (inj_call.forced = NoMode /\ ~probabilistic_mode)
         => (~inj_call.inject /\ inj_call.mode = NoMode)

\* A forced call answered inside the session's cooldown, in probabilistic mode.
C2_Witness ==
  /\ inj_call.op = "should_inject"
  /\ inj_call.forced = "api_timeout"
  /\ inj_call.inject
  /\ probabilistic_mode
  /\ inj_call.session \in DOMAIN session_states
  /\ InCooldown(session_states[inj_call.session], inj_call.at)

\* The last process_request applied an injection and returned a response.
InjectionReturned ==
  /\ agent_call.op = "process_request"
  /\ agent_call.applied
  /\ agent_call.outcome = "returned"

\* C3: for every turn in which an injection is applied, the returned response
\* has failure_injection_applied = true and the injected mode, its
\* natural_response and natural_status are the text and status the LLM call
\* produced, and its status is FAILURE for output-quality and behavioral modes
\* and ERROR for integration and resource modes.
C3_InjectedResponseKeepsNatural ==
  InjectionReturned =>
    /\ agent_call.response.failure_injection_applied
    /\ agent_call.response.failure_mode = agent_call.applied_mode
    /\ agent_call.response.natural_response = agent_call.llm_text
    /\ agent_call.response.natural_status = agent_call.llm_status
    /\ agent_call.response.status =
         IF FailureTypeOf(agent_call.applied_mode) \in {"output_quality", "behavioral"}
         THEN "failure" ELSE "error"

\* A probabilistically selected integration failure on top of a successful LLM
\* call, returned to the caller.
C3_Witness ==
  /\ InjectionReturned
  /\ inj_call.via = "probabilistic"
  /\ FailureTypeOf(agent_call.applied_mode) = "integration"
  /\ agent_call.llm_status = "success"

\* C4: process_request always returns a response and never lets an exception
\* reach its caller, whichever collaborator call fails; after an unexpected
\* exception the response has status ERROR, carries the exception message, and
\* the attempt is recorded.
C4_AlwaysStructuredResponse ==
  agent_call.op = "process_request" =>
    /\ agent_call.outcome = "returned"
    /\ agent_call.raised_at # "none" =>
         /\ agent_call.response.status = "error"
         /\ agent_call.response.response = Unexpected(agent_call.raised_at)
         /\ agent_call.recorded

\* The last process_interaction call met a raising collaborator at one of places.
MonitorFaultAt(places) ==
  /\ monitor_call.op = "process_interaction"
  /\ monitor_call.fault \in places

\* C5: when the metrics sink or the persistence layer (database add or merge)
\* raises inside process_interaction, the call still returns the behavior it
\* tracked and the results of the anomaly detection of that interaction.
C5_SinkFailuresKeepResults ==
  MonitorFaultAt({"metrics", "add", "merge"}) =>
    /\ monitor_call.behavior # NoBehavior
    /\ monitor_call.result.behavior = monitor_call.behavior
    /\ monitor_call.result.anomalies_detected = AnomaliesDetected(monitor_call.detected)
    /\ monitor_call.result.overall_anomaly_score = OverallAnomalyScore(monitor_call.detected)
    /\ monitor_call.result.error = "none"

\* The merge of the baseline raised in a call whose detectors had reported.
C5_Witness ==
  /\ MonitorFaultAt({"merge"})
  /\ monitor_call.detected # {}
  /\ monitor_call.result.behavior.conversation_turns = DefaultMinInteractions

\* C6: when tracking, the history fetch or the anomaly detection raises inside
\* process_interaction, the call returns the safe empty result: no behavior, an
\* empty anomalies_detected list and an overall_anomaly_score of 0.
C6_PipelineFailureGivesSafeResult ==
  MonitorFaultAt({"track", "history", "detect"}) =>
    /\ monitor_call.result.behavior = NoBehavior
    /\ monitor_call.result.anomalies_detected = << >>
    /\ monitor_call.result.overall_anomaly_score = 0

\* The detection raised after the fourth interaction of a session was tracked.
C6_Witness ==
  /\ MonitorFaultAt({"detect"})
  /\ monitor_call.behavior.conversation_turns = MinForDrift

\* C7: in every session the conversation_turns of each tracked behavior is the
\* number of behaviors tracked before it plus 1, so the values of successive
\* track_interaction calls are 1, 2, 3, ...
C7_TurnsCountPriorBehaviors ==
  \A s \in DOMAIN session_behaviors :
    \A i \in 1..Len(session_behaviors[s]) :
      session_behaviors[s][i].conversation_turns = (i - 1) + 1

\* Two sessions tracked side by side, three and two interactions.
C7_Witness ==
  /\ Len(Lookup(session_behaviors, "s1")) = 3
  /\ Len(Lookup(session_behaviors, "s2")) = 2

\* C8: in every session the stored response list holds at most 10 entries,
\* which are the most recently appended texts in the order they were appended
\* (the oldest is dropped first), and get_recent_responses never returns more
\* than 10 entries.
C8_ResponsesAreTheLastTen ==
  \A s \in Sessions :
    LET stored == Lookup(session_responses, s)
        all    == appended[s]
        kept   == IF Len(all) < 10 THEN Len(all) ELSE 10
    IN  /\ Len(stored) = kept
        /\ \A i \in 1..kept : stored[i] = all[Len(all) - kept + i]
        /\ \A count \in 0..MaxTracked : Len(GetRecentResponses(s, count)) <= 10

\* An eleventh response was appended and the dropped text is not the text that
\* follows it.
C8_Witness ==
  \E s \in Sessions :
    /\ Len(appended[s]) > ResponseCap
    /\ appended[s][1] # appended[s][2]

\* C9: for every count >= 0, get_recent_behaviors(s, count) and
\* get_recent_responses(s, count) return at most count entries, namely the last
\* count stored entries of the session in chronological order, and the empty
\* list for an unknown session.
C9_RecentReturnsLastCount ==
  \A s \in Sessions, count \in 0..MaxTracked :
    LET behaviors == Lookup(session_behaviors, s)
        responses == Lookup(session_responses, s)
        nb == IF count < Len(behaviors) THEN count ELSE Len(behaviors)
        nr == IF count < Len(responses) THEN count ELSE Len(responses)
    IN  /\ Len(GetRecentBehaviors(s, count)) <= count
        /\ Len(GetRecentResponses(s, count)) <= count
        /\ GetRecentBehaviors(s, count) =
             SubSeq(behaviors, Len(behaviors) - nb + 1, Len(behaviors))
        /\ GetRecentResponses(s, count) =
             SubSeq(responses, Len(responses) - nr + 1, Len(responses))
        /\ s \notin DOMAIN session_behaviors => GetRecentBehaviors(s, count) = << >>
        /\ s \notin DOMAIN session_responses => GetRecentResponses(s, count) = << >>

\* C10: every stored baseline has an interaction_count of at least
\* min_interactions, after any sequence of establish_baseline, update_baseline,
\* detect_anomalies and remove_baseline calls.
C10_BaselineHasEnoughInteractions ==
  \A s \in DOMAIN baselines : baselines[s].interaction_count >= min_interactions

\* A baseline that an update has blended new behaviors into.
C10_Witness ==
  \E s \in DOMAIN baselines :
    /\ baselines[s].interaction_count > min_interactions
    /\ baselines[s].last_updated > baselines[s].established_at

\* The last BaselineManager call was op and found a baseline stored.
CalledOnExisting(op) ==
  /\ baseline_call.op = op
  /\ baseline_call.prior # NoBaseline

\* The baseline found by the last call was younger than update_frequency_hours.
CalledWhileThrottled ==
  baseline_call.at - baseline_call.prior.last_updated
    < update_frequency_hours * SecondsPerHour

\* The baseline stored now for the session of the last call.
StoredAfterCall == GetBaseline(baselines, baseline_call.session)

\* C11: establish_baseline returns None exactly when it is given fewer than
\* min_interactions behaviors, and then the baseline stored for the session,
\* present or absent, is what it was before the call.
C11_EstablishRefusesExactlyTooFew ==
  baseline_call.op = "establish_baseline" =>
    /\ baseline_call.returned = NoBaseline <=> baseline_call.n < min_interactions
    /\ baseline_call.returned = NoBaseline => StoredAfterCall = baseline_call.prior

\* One behavior short of min_interactions, with a baseline already stored.
C11_Witness ==
  /\ CalledOnExisting("establish_baseline")
  /\ baseline_call.n = min_interactions - 1
  /\ baseline_call.returned = NoBaseline

\* C12: when the stored baseline is less than update_frequency_hours old,
\* update_baseline returns it and leaves it stored unchanged, whatever the new
\* behaviors are.
C12_ThrottledUpdateChangesNothing ==
  (CalledOnExisting("update_baseline") /\ CalledWhileThrottled) =>
    /\ baseline_call.returned = baseline_call.prior
    /\ StoredAfterCall = baseline_call.prior

\* New behaviors offered three hours after the last update, under the default
\* six hours.
C12_Witness ==
  /\ CalledOnExisting("update_baseline")
  /\ CalledWhileThrottled
  /\ baseline_call.n > 0
  /\ baseline_call.at > baseline_call.prior.last_updated

\* C13: update_baseline with an empty list of new behaviors returns the stored
\* baseline with no field changed and leaves it stored unchanged, under every
\* update_frequency_hours, 0 included, and so immediately after establishment.
C13_EmptyUpdateChangesNothing ==
  (CalledOnExisting("update_baseline") /\ baseline_call.n = 0) =>
    /\ baseline_call.returned = baseline_call.prior
    /\ StoredAfterCall = baseline_call.prior

\* The empty update follows the establishment at once, with no throttling.
C13_Witness ==
  /\ CalledOnExisting("update_baseline")
  /\ baseline_call.n = 0
  /\ update_frequency_hours = 0
  /\ baseline_call.prior.established_at = baseline_call.at
  /\ baseline_call.prior.last_updated = baseline_call.at

\* C14: when update_baseline blends (the stored baseline is at least
\* update_frequency_hours old and there are new behaviors), interaction_count
\* grows by the number of new behaviors, established_at and
\* standard_conversation_depth keep their values and last_updated is the time
\* of the call.
C14_BlendAccumulatesAndPreserves ==
  (CalledOnExisting("update_baseline") /\ ~CalledWhileThrottled /\ baseline_call.n > 0) =>
    /\ StoredAfterCall.interaction_count =
         baseline_call.prior.interaction_count + baseline_call.n
    /\ StoredAfterCall.established_at = baseline_call.prior.established_at
    /\ StoredAfterCall.standard_conversation_depth =
         baseline_call.prior.standard_conversation_depth
    /\ StoredAfterCall.last_updated = baseline_call.at
    /\ baseline_call.returned = StoredAfterCall

\* A blend, later than the establishment, of behaviors whose mean depth is not
\* the stored one.
C14_Witness ==
  /\ CalledOnExisting("update_baseline")
  /\ ~CalledWhileThrottled
  /\ baseline_call.n > 0
  /\ baseline_call.at > baseline_call.prior.established_at
  /\ BatchDepth(baseline_call.n) # baseline_call.prior.standard_conversation_depth

\* C15: while a session's baseline stays stored, processing interactions
\* through the monitoring pipeline never re-creates it: established_at keeps
\* its value, and the baseline changes only by a blend of update_baseline,
\* which needs it to be at least update_frequency_hours old.
C15_PipelineKeepsEstablishedBaseline ==
  [][ \A s \in MonitorSessions :
        (s \in DOMAIN baselines /\ s \in DOMAIN baselines') =>
          /\ baselines'[s].established_at = baselines[s].established_at
          /\ baselines'[s] # baselines[s] =>
               /\ ~Throttled(baselines[s])
               /\ \E n \in 1..MaxBatch : baselines'[s] = Blended(baselines[s], n)
    ]_vars

\* C16: resetting a session clears its tracked behavior history, its
\* failure-injection state and its cached conversation state.
C16_ResetClearsTheSession ==
  [][ \A s \in InjSessions :
        (\E redis_up \in BOOLEAN : ResetSessionOf(s, redis_up)) =>
          /\ s \notin DOMAIN session_behaviors'
          /\ s \notin DOMAIN session_responses'
          /\ s \notin DOMAIN session_states'
          /\ s \notin DOMAIN redis'.state
    ]_vars

\* C17: a call for one session id (track_interaction, clear_session_data,
\* baseline establish, update or remove, probabilistic evaluation, injector
\* reset) leaves the tracked history, the baseline and the injector state of
\* every other session id as they were, under any interleaving of the calls.
C17_OtherSessionsUntouched ==
  [][ \A s \in Sessions :
        SessionOp(s) => \A t \in Sessions \ {s} : SessionView(t)' = SessionView(t)
    ]_vars

\* Both sessions hold tracked behaviors, a baseline and an injector state, and
\* the last call was a probabilistic evaluation.
C17_Witness ==
  /\ \A s \in Sessions :
       /\ Len(Lookup(session_behaviors, s)) > 0
       /\ s \in DOMAIN baselines
       /\ s \in DOMAIN session_states
  /\ inj_call.via = "probabilistic"

\* C18: in every result of detect_anomalies, overall_anomaly_score is the
\* largest of the per-type scores of the anomalies that fired (one of those
\* scores, and none of them above it), and 0 when no anomaly fired.
C18_OverallScoreIsTheMaximum ==
  anomaly_call.done =>
    LET scores == anomaly_call.scores
        fired  == {anomaly_call.detected[i] : i \in 1..Len(anomaly_call.detected)}
    IN  /\ fired = DOMAIN scores
        /\ IF fired = {} THEN anomaly_call.overall = 0
           ELSE /\ \E t \in fired : anomaly_call.overall = scores[t]
                /\ \A t \in fired : scores[t] <= anomaly_call.overall

\* A result in which a baseline deviation and a statistical anomaly fired, the
\* statistical score being the larger one and the overall score.
C18_Witness ==
  /\ anomaly_call.done
  /\ DOMAIN anomaly_call.scores = {"baseline_deviation", "statistical_anomaly"}
  /\ anomaly_call.scores["baseline_deviation"] < anomaly_call.scores["statistical_anomaly"]
  /\ anomaly_call.overall = anomaly_call.scores["statistical_anomaly"]

\* The last three responses of the call are one and the same text.
LastThreeIdentical ==
  /\ Len(loop_call.responses) >= 3
  /\ \A i, j \in (Len(loop_call.responses) - 2)..Len(loop_call.responses) :
       loop_call.responses[i] = loop_call.responses[j]

\* C19: detect_response_loops returns None for every list of fewer than 3
\* responses, and returns exact_repetition with pattern_length 3 and confidence
\* 1.0 whenever the last 3 responses are identical, also where the low
\* diversity or the alternating check would apply.
C19_ExactRepetitionComesFirst ==
  loop_call.done =>
    /\ Len(loop_call.responses) < 3 => loop_call.result = NoLoop
    /\ LastThreeIdentical =>
         /\ loop_call.result.loop_type = "exact_repetition"
         /\ loop_call.result.pattern_length = 3
         /\ loop_call.result.confidence = Unit

\* A call with five responses of two distinct texts, the last three identical:
\* the low diversity check applies too, and exact_repetition is returned.
C19_Witness ==
  /\ loop_call.done
  /\ Len(loop_call.responses) = 5
  /\ Cardinality(ValuesOf(loop_call.responses)) = 2
  /\ LastThreeIdentical
  /\ loop_call.result.loop_type = "exact_repetition"

\* C20 as stated: for every list of 5 responses with exactly 2 distinct values
\* detect_response_loops returns low_diversity with uniqueness_ratio 0.4.
C20_TwoOfFiveIsLowDiversity ==
  (loop_call.done /\ Len(loop_call.responses) = 5
     /\ Cardinality(ValuesOf(loop_call.responses)) = 2) =>
    /\ loop_call.result.loop_type = "low_diversity"
    /\ loop_call.result.uniqueness_ratio = 4000

\* C20, amended: for every list of 5 responses with exactly 2 distinct values
\* whose last 3 responses are not all identical, detect_response_loops returns
\* low_diversity with uniqueness_ratio 0.4.
C20_TwoOfFiveWithoutRepetitionIsLowDiversity ==
  (loop_call.done /\ Len(loop_call.responses) = 5
     /\ Cardinality(ValuesOf(loop_call.responses)) = 2
     /\ ~LastThreeIdentical) =>
    /\ loop_call.result.loop_type = "low_diversity"
    /\ loop_call.result.uniqueness_ratio = 4000

\* A call with five responses alternating between two texts, returned as
\* low_diversity.
C20_Witness ==
  /\ loop_call.done
  /\ Len(loop_call.responses) = 5
  /\ Cardinality(ValuesOf(loop_call.responses)) = 2
  /\ ~LastThreeIdentical
  /\ loop_call.responses[1] = loop_call.responses[3]
  /\ loop_call.responses[2] = loop_call.responses[4]
  /\ loop_call.result.loop_type = "low_diversity"

\* The last four responses of the call have the form A,B,A,B with A # B.
LastFourAlternate ==
  /\ Len(loop_call.responses) >= 4
  /\ LET n == Len(loop_call.responses)
     IN  /\ loop_call.responses[n - 3] = loop_call.responses[n - 1]
         /\ loop_call.responses[n - 2] = loop_call.responses[n]
         /\ loop_call.responses[n - 1] # loop_call.responses[n]

\* At least 5 responses are available and fewer than 60% of the last 5 are
\* distinct.
FewDistinctInLastFive ==
  /\ Len(loop_call.responses) >= 5
  /\ LET n == Len(loop_call.responses)
     IN  Cardinality({loop_call.responses[i] : i \in (n - 4)..n}) * 100 < 60 * 5

\* C21: for a list of at least 4 responses whose last four are A,B,A,B with
\* A # B, detect_response_loops returns alternating_pattern with pattern_length
\* 2 and confidence 0.9, except that low_diversity is returned when at least 5
\* responses are available and fewer than 60% of the last 5 are distinct.
C21_AlternatingUnlessLowDiversity ==
  (loop_call.done /\ LastFourAlternate) =>
    IF FewDistinctInLastFive
    THEN loop_call.result.loop_type = "low_diversity"
    ELSE /\ loop_call.result.loop_type = "alternating_pattern"
         /\ loop_call.result.pattern_length = 2
         /\ loop_call.result.confidence = 9000

\* A call with five responses, three of them distinct, the last four
\* alternating: alternating_pattern is returned.
C21_Witness ==
  /\ loop_call.done
  /\ Len(loop_call.responses) = 5
  /\ LastFourAlternate
  /\ ~FewDistinctInLastFive
  /\ loop_call.result.loop_type = "alternating_pattern"

\* A call with five responses of two texts, the last four alternating:
\* low_diversity is returned.
C21_WitnessLowDiversity ==
  /\ loop_call.done
  /\ LastFourAlternate
  /\ FewDistinctInLastFive
  /\ loop_call.result.loop_type = "low_diversity"

\* C22: a call of inject_integration_failure for api_timeout, whose configured
\* range is (5, 15) seconds, raises nothing and returns nothing before it has
\* blocked; it ends only by raising the timeout error, after a block of 5 to 15
\* seconds.
C22_TimeoutBlocksThenRaises ==
  inject_call.mode = "api_timeout" =>
    /\ inject_call.pc \in {"called", "awake"} => inject_call.outcome = "none"
    /\ inject_call.pc = "done" =>
         /\ inject_call.outcome = "TimeoutError"
         /\ inject_call.slept >= 5 /\ inject_call.slept <= 15
         /\ now - inject_call.started = inject_call.slept

\* An api_timeout call that has raised after blocking for 7 seconds.
C22_Witness ==
  /\ inject_call.mode = "api_timeout"
  /\ inject_call.pc = "done"
  /\ inject_call.outcome = "TimeoutError"
  /\ inject_call.slept = 7

\* C23: every AgentResponse process_request returns, and every interaction
\* record it gives the database to persist, carries the observed status and
\* response and the natural status, and the natural response wherever the LLM
\* step was reached: on the normal path, the injected path and the
\* unexpected-exception path.
C23_ResponsesAndRecordsCarryBoth ==
  agent_call.op = "process_request" =>
    /\ agent_call.outcome = "returned" =>
         /\ agent_call.response.status \notin {"none", "null"}
         /\ agent_call.response.response # NoText
         /\ agent_call.response.natural_status \notin {"none", "null"}
         /\ agent_call.raised_at = "none" => agent_call.response.natural_response # NoText
    /\ agent_call.added.status \notin {"none", "null"}
    /\ agent_call.added.natural_status \notin {"none", "null"}
    /\ agent_call.raised_at = "none" => agent_call.added.natural_response # NoText

\* The behavior of the call equals the statistics of the baseline: its latency
\* is the average latency, its length lies in the typical range, its
\* clarification frequency is the normal rate and its confidence count the
\* average count.
EqualsBaselineStatistics ==
  LET b == deviation_call.behavior
      base == deviation_call.baseline
  IN  /\ b.response_latency_ms = base.avg_response_latency
      /\ b.message_length >= base.typical_message_length_range[1]
      /\ b.message_length <= base.typical_message_length_range[2]
      /\ b.clarification_frequency = base.normal_clarification_rate
      /\ b.confidence_expressions = base.confidence_average

\* C24: detect_deviation returns 0 for a behavior that equals the statistics
\* of the baseline, and, the other fields being the same, a latency at least
\* as far from the baseline average gives a result at least as large.
C24_DeviationZeroAndMonotone ==
  deviation_call.done =>
    LET avg == deviation_call.baseline.avg_response_latency
        near == deviation_call.behavior.response_latency_ms - avg
        far == deviation_call.other_latency - avg
    IN  /\ EqualsBaselineStatistics => deviation_call.result = 0
        /\ (IF far < 0 THEN -far ELSE far) >= (IF near < 0 THEN -near ELSE near)
             => deviation_call.other_result >= deviation_call.result

\* A behavior that equals the statistics of its baseline, with result 0, and
\* the same behavior with a latency below the average, with a larger result.
C24_Witness ==
  /\ deviation_call.done
  /\ EqualsBaselineStatistics
  /\ deviation_call.result = 0
  /\ deviation_call.other_latency < deviation_call.baseline.avg_response_latency
  /\ deviation_call.other_result > 0

\* C25: get_session_metrics, called after n track_interaction calls on the
\* session since its last clear, reports interaction_count = n and
\* avg_response_latency equal to the mean of the n latencies supplied; for a
\* session without behaviors (never tracked, or cleared) it returns the shape
\* with every value 0.
C25_MetricsCountAndMean ==
  metrics_call.done =>
    LET n == Len(metrics_call.supplied)
    IN  IF n = 0
        THEN /\ metrics_call.result.interaction_count = 0
             /\ metrics_call.result.avg_response_latency = 0
             /\ metrics_call.result.avg_message_length = 0
             /\ DOMAIN metrics_call.result =
                  {"interaction_count", "avg_response_latency", "avg_message_length"}
        ELSE /\ metrics_call.result.interaction_count = n
             /\ metrics_call.result.avg_response_latency =
                  (SumSeq(metrics_call.supplied) * Unit) \div n

\* Metrics read after three interactions whose latencies are not all the same.
C25_Witness ==
  /\ metrics_call.done
  /\ Len(metrics_call.supplied) = 3
  /\ metrics_call.supplied[1] # metrics_call.supplied[3]
  /\ metrics_call.result.interaction_count = 3

\* Metrics read for a session that was tracked and then cleared.
C25_WitnessCleared ==
  /\ metrics_call.done
  /\ metrics_call.session = "s1"
  /\ metrics_call.supplied = << >>
  /\ metrics_call.result = EmptyMetrics

\* C26: clear_session_data(s) leaves neither a behavior list nor a response
\* list for s; called a second time, or for a session that was never tracked,
\* it changes nothing in the tracker.
C26_ClearRemovesBothAndIsIdempotent ==
  [][ \A s \in Sessions :
        Clear(s) =>
          /\ s \notin DOMAIN session_behaviors'
          /\ s \notin DOMAIN session_responses'
          /\ (s \notin DOMAIN session_behaviors /\ s \notin DOMAIN session_responses)
               => /\ session_behaviors' = session_behaviors
                  /\ session_responses' = session_responses
    ]_vars

\* The metrics of s1 were read when it had tracked interactions, and the
\* tracker has been cleared of s1 since.
C26_Witness ==
  /\ metrics_call.done
  /\ metrics_call.session = "s1"
  /\ Len(metrics_call.supplied) > 0
  /\ "s1" \notin DOMAIN session_behaviors
  /\ "s1" \notin DOMAIN session_responses

\* The number of behaviors of the call whose timestamp lies in the trailing
\* window.
InsideWindow ==
  Cardinality({ i \in 1..Len(drift_call.behaviors) :
                  now - drift_call.behaviors[i].timestamp
                    <= drift_call.window * SecondsPerHour })

\* C27 as stated: drift score 0 with insufficient_data whenever fewer than 4
\* behaviors are given, and drift score 0 with insufficient_recent_data whenever
\* fewer than 2 of them fall inside the window.
C27_InsufficientDataGivesNoDrift ==
  drift_call.done =>
    /\ Len(drift_call.behaviors) < 4 =>
         /\ drift_call.result.drift_score = 0
         /\ drift_call.result.drift_type = "insufficient_data"
    /\ InsideWindow < 2 =>
         /\ drift_call.result.drift_score = 0
         /\ drift_call.result.drift_type = "insufficient_recent_data"

\* C27, amended: drift score 0 with insufficient_data whenever fewer than 4
\* behaviors are given; drift score 0 with insufficient_recent_data whenever at
\* least 4 are given and fewer than 2 of them fall inside the window; in both
\* cases no drift anomaly fires.
C27_InsufficientDataChecksInOrder ==
  drift_call.done =>
    /\ Len(drift_call.behaviors) < 4 =>
         /\ drift_call.result.drift_score = 0
         /\ drift_call.result.drift_type = "insufficient_data"
         /\ ~drift_call.fires
    /\ (Len(drift_call.behaviors) >= 4 /\ InsideWindow < 2) =>
         /\ drift_call.result.drift_score = 0
         /\ drift_call.result.drift_type = "insufficient_recent_data"
         /\ drift_call.window = DefaultTimeWindowHours => ~drift_call.fires

\* Four behaviors, one of them inside the window, where the comparison of the
\* halves would have given a drift of 0.9.
C27_Witness ==
  /\ drift_call.done
  /\ Len(drift_call.behaviors) = 4
  /\ InsideWindow = 1
  /\ drift_call.comparison.drift_score = 9000
  /\ drift_call.result.drift_type = "insufficient_recent_data"
  /\ ~drift_call.fires

\* The state of session s that an evaluation starts from: the stored one, or
\* the one the evaluation creates.
StateBefore(s) ==
  IF s \in DOMAIN session_states THEN session_states[s] ELSE FreshSessionState

\* The evaluation of session s with the given draws runs outside the cooldown.
EvaluatesOutsideCooldown(s, draws) ==
  /\ probabilistic_mode
  /\ ShouldInjectFailure(s, NoMode, draws)
  /\ ~(/\ StateBefore(s).last_failure_time # NoTime
       /\ now - StateBefore(s).last_failure_time < CooldownSeconds)

\* The catalog positions whose draw is below the adjusted probability.
Succeeding(s, draws) ==
  { i \in 1..Len(ModeOrder) :
      draws[i] < AdjustedProbability(ModeOrder[i], StateBefore(s)) }

\* C28: in one probabilistic evaluation outside cooldown the modes are tried in
\* catalog order with one draw each; the selected mode is the first whose draw
\* is below its adjusted probability and no later mode is drawn; if no draw
\* succeeds nothing is injected and failure_count, last_failure_time,
\* last_failure_mode and clarification_requests are unchanged.
C28_FirstSucceedingModeIsSelected ==
  [][ \A s \in InjSessions, draws \in DrawStreams :
        EvaluatesOutsideCooldown(s, draws) =>
          IF Succeeding(s, draws) = {}
          THEN /\ ~inj_call'.inject
               /\ inj_call'.mode = NoMode
               /\ inj_call'.drawn = Len(ModeOrder)
               /\ session_states'[s].failure_count = StateBefore(s).failure_count
               /\ session_states'[s].last_failure_time = StateBefore(s).last_failure_time
               /\ session_states'[s].last_failure_mode = StateBefore(s).last_failure_mode
               /\ session_states'[s].clarification_requests =
                    StateBefore(s).clarification_requests
          ELSE \E k \in Succeeding(s, draws) :
                 /\ \A i \in Succeeding(s, draws) : k <= i
                 /\ inj_call'.inject
                 /\ inj_call'.mode = ModeOrder[k]
                 /\ inj_call'.drawn = k
                 /\ session_states'[s].last_failure_mode = ModeOrder[k] ]_vars

\* With the multiplier 4 the draws of the first two modes both succeed: the
\* evaluation selected the first one after a single draw.
C28_Witness ==
  /\ inj_call.via = "probabilistic"
  /\ inj_call.inject
  /\ inj_call.mode = "hallucination"
  /\ inj_call.drawn = 1
  /\ failure_rate_multiplier = 4
  /\ BaseProbability("incorrect_reasoning") * failure_rate_multiplier > DrawHigh
  /\ session_states["s1"].failure_count = 1

\* C29: when the probabilistic evaluator selects mode m at time t, failure_count
\* increases by exactly 1, last_failure_time becomes t, last_failure_mode
\* becomes m, and clarification_requests increases by 1 if m is infinite_loop
\* and is reset to 0 otherwise.
C29_SelectionUpdatesSessionState ==
  [][ \A s \in InjSessions, draws \in DrawStreams :
        (probabilistic_mode /\ ShouldInjectFailure(s, NoMode, draws) /\ inj_call'.inject) =>
          /\ session_states'[s].failure_count = StateBefore(s).failure_count + 1
          /\ session_states'[s].last_failure_time = now
          /\ session_states'[s].last_failure_mode = inj_call'.mode
          /\ session_states'[s].clarification_requests =
               IF inj_call'.mode = "infinite_loop"
               THEN StateBefore(s).clarification_requests + 1
               ELSE 0 ]_vars

\* infinite_loop was selected for the second time in a row.
C29_Witness ==
  /\ inj_call.via = "probabilistic"
  /\ inj_call.inject
  /\ inj_call.mode = "infinite_loop"
  /\ "s1" \in DOMAIN session_states
  /\ session_states["s1"].clarification_requests = 2
  /\ session_states["s1"].failure_count = 2
  /\ session_states["s1"].last_failure_time = inj_call.at

\* base_probability times failure_rate_multiplier, times 2 for infinite_loop in
\* a session with a clarification request, times 0.3 for the mode injected last.
ClaimedProbability(m, st) ==
  LET doubling == IF m = "infinite_loop" /\ st.clarification_requests >= 1 THEN 2 ELSE 1
      tenths == IF st.last_failure_mode = m THEN 3 ELSE 10
  IN  (BaseProbability(m) * failure_rate_multiplier * doubling * tenths) \div 10

\* C30: the adjusted probability an evaluation uses for a mode is
\* base_probability times failure_rate_multiplier, doubled if the mode is
\* infinite_loop and the session has at least 1 consecutive clarification
\* request, and multiplied by 0.3 if the mode is the one injected last: every
\* draw made is compared with that value, and it is the one reported for the
\* selected mode.
C30_AdjustedProbabilityOfEachMode ==
  [][ \A s \in InjSessions, draws \in DrawStreams :
        EvaluatesOutsideCooldown(s, draws) =>
          /\ inj_call'.inject =>
               inj_call'.probability = ClaimedProbability(inj_call'.mode, StateBefore(s))
          /\ \A i \in 1..inj_call'.drawn :
               (draws[i] < ClaimedProbability(ModeOrder[i], StateBefore(s)))
                 <=> (inj_call'.inject /\ i = inj_call'.drawn) ]_vars

\* infinite_loop selected for the second time in a row with the multiplier 1:
\* 0.2 doubled and damped to 0.12.
C30_Witness ==
  /\ inj_call.via = "probabilistic"
  /\ inj_call.inject
  /\ inj_call.mode = "infinite_loop"
  /\ inj_call.probability = 1200
  /\ failure_rate_multiplier = 1
  /\ "s1" \in DOMAIN session_states
  /\ session_states["s1"].clarification_requests = 2

\* C31: in every per-session injector state clarification_requests >= 1 holds
\* exactly when last_failure_mode is infinite_loop; so whenever the doubling of
\* infinite_loop applies the 0.3 damping applies too, and the adjusted
\* probability of infinite_loop is then 0.6 times base times multiplier, never
\* above base times multiplier.
C31_DoublingComesWithDamping ==
  \A s \in DOMAIN session_states :
    LET st == session_states[s]
        plain == BaseProbability("infinite_loop") * failure_rate_multiplier
    IN  /\ (st.clarification_requests >= 1) <=> (st.last_failure_mode = "infinite_loop")
        /\ st.clarification_requests >= 1 =>
             /\ 10 * AdjustedProbability("infinite_loop", st) = 6 * plain
             /\ AdjustedProbability("infinite_loop", st) <= plain

\* A session whose last injection was infinite_loop, under the multiplier 1:
\* the adjusted probability of infinite_loop is 0.12.
C31_Witness ==
  /\ "s1" \in DOMAIN session_states
  /\ session_states["s1"].clarification_requests >= 1
  /\ session_states["s1"].last_failure_mode = "infinite_loop"
  /\ failure_rate_multiplier = 1
  /\ AdjustedProbability("infinite_loop", session_states["s1"]) = 1200

\* C32: a forced-mode call of should_inject_failure leaves the per-session
\* state of the injector unchanged: no session entry is created, message_count,
\* failure_count, last_failure_mode and clarification_requests keep their
\* values, and no cooldown is started or extended, so a probabilistic evaluation
\* made right after it selects what it would have selected before it.
C32_ForcedCallLeavesSessionState ==
  [][ \A s \in InjSessions, forced \in Modes :
        (ShouldInjectFailure(s, forced, AllHigh) /\ now' = now) =>
          /\ DOMAIN session_states' = DOMAIN session_states
          /\ \A t \in DOMAIN session_states : session_states'[t] = session_states[t]
          /\ InCooldown(StateBefore(s), now)' = InCooldown(StateBefore(s), now)
          /\ \A draws \in DrawStreams : EvalPick(s, draws)' = EvalPick(s, draws) ]_vars

\* A forced call has just returned for a session without an entry, and the
\* probabilistic evaluation, made now, would inject.
C32_Witness ==
  /\ inj_call.via = "forced"
  /\ inj_call.inject
  /\ inj_call.at = now
  /\ "s1" \notin DOMAIN session_states
  /\ probabilistic_mode
  /\ EvalPick("s1", AllHigh) # 0

\* The steps of the last process_interaction call.
StepsOfCall == { monitor_call.steps[i] : i \in 1..Len(monitor_call.steps) }

\* C33: process_interaction performs its steps in the order track, fetch recent
\* history and responses, detect, emit metrics (if enabled), persist (if
\* enabled); the persist step of one interaction adds exactly one behavior log
\* row and exactly one anomaly log row per fired anomaly, and upserts a baseline
\* row only when the session has at least min_interactions behaviors.
C33_StepsInOrderAndRowsPerInteraction ==
  monitor_call.op = "process_interaction" =>
    /\ monitor_call.steps =
         SelectSeq(<< "track", "history", "detect", "metrics", "persist" >>,
                   LAMBDA x : x \in StepsOfCall)
    /\ monitor_call.fault \notin {"track", "history", "detect"} =>
         /\ {"track", "history", "detect"} \subseteq StepsOfCall
         /\ "metrics" \in StepsOfCall <=> monitoring.metrics
         /\ "persist" \in StepsOfCall <=> monitoring.persistence
    /\ ("persist" \in StepsOfCall /\ monitor_call.fault # "add") =>
         /\ monitor_call.rows.behavior = 1
         /\ monitor_call.rows.anomaly = Len(monitor_call.result.anomalies_detected)
         /\ monitor_call.rows.baseline <= 1
    /\ monitor_call.rows.baseline >= 1 =>
         monitor_call.result.interaction_count >= min_interactions
    /\ "persist" \notin StepsOfCall => monitor_call.rows = NoRows

\* An interaction with both sinks in use in which two anomalies fired and the
\* history sufficed for the baseline.
C33_Witness ==
  /\ monitor_call.op = "process_interaction"
  /\ monitor_call.fault = "none"
  /\ monitor_call.steps = << "track", "history", "detect", "metrics", "persist" >>
  /\ monitor_call.rows = [ behavior |-> 1, anomaly |-> 2, baseline |-> 1 ]
  /\ Len(monitor_call.result.anomalies_detected) = 2

\* C34: detect_anomalies reports a baseline_deviation anomaly exactly when a
\* baseline is available for the session (stored already, or established during
\* the call because len(session_behaviors) >= min_interactions) and the
\* deviation of the current behavior from it is >= anomaly_threshold; when no
\* baseline is stored and the history is insufficient the check is skipped and
\* no baseline is stored.
C34_BaselineDeviationReportedWhenAvailable ==
  baseline_call.op = "detect_anomalies" =>
    LET stored == baseline_call.prior # NoBaseline
        enough == baseline_call.n >= min_interactions
    IN  /\ baseline_call.reported <=>
             ((stored \/ enough) /\ 10 * baseline_call.deviation >= 7 * Unit)
        /\ (~stored /\ ~enough) =>
             /\ ~baseline_call.reported
             /\ baseline_call.session \notin DOMAIN baselines
        /\ (~stored /\ enough) =>
             /\ baseline_call.session \in DOMAIN baselines
             /\ baselines[baseline_call.session].established_at = baseline_call.at

\* A call without a stored baseline, with just enough history and a deviation
\* of exactly 0.7: the baseline is established and the anomaly reported.
C34_Witness ==
  /\ baseline_call.op = "detect_anomalies"
  /\ baseline_call.prior = NoBaseline
  /\ baseline_call.n = min_interactions
  /\ baseline_call.deviation = 7000
  /\ baseline_call.reported
  /\ "s1" \in DOMAIN baselines

\* C35: after BehavioralMonitoringService.clear_session_data(s) the service
\* holds no in-memory behavioral data for s: the tracker has no behaviors and
\* no responses for s and the baseline manager has no baseline for s.
C35_ClearLeavesNoInMemoryData ==
  [][ ServiceClearSessionData =>
        \A s \in MonitorSessions :
          /\ s \notin DOMAIN session_behaviors'
          /\ s \notin DOMAIN session_responses'
          /\ s \notin DOMAIN baselines' ]_vars

\* The position in the log of the step of a thread, 0 if it has not made it.
StepAt(t, step) ==
  LET at == { i \in 1..Len(race.log) : race.log[i] = [thread |-> t, step |-> step] }
  IN  IF at = {} THEN 0 ELSE CHOOSE i \in at : TRUE

\* The responses and the behaviors the tracker holds for the session.
RaceResponses ==
  LET held == Lookup(session_responses, RaceSession)
  IN  { held[i] : i \in 1..Len(held) }

RaceBehaviors == Lookup(session_behaviors, RaceSession)

\* C36: without locking, two track_interaction calls for one session that
\* interleave between reading the history length and appending record two
\* behaviors with the same conversation_turns, and a response appended between
\* the read and the store of the truncation of another call is lost; calls
\* that run one after the other get consecutive turns and lose nothing.
C36_InterleavedCallsRace ==
  \A t \in Threads : \A u \in Threads \ {t} :
    /\ ( /\ StepAt(t, "append_behavior") # 0 /\ StepAt(u, "append_behavior") # 0
         /\ StepAt(t, "count") < StepAt(u, "append_behavior")
         /\ StepAt(u, "count") < StepAt(t, "append_behavior") ) =>
         /\ race.turns[t] = race.turns[u]
         /\ RaceBehaviors[Len(RaceBehaviors)].conversation_turns = race.turns[t]
    /\ ( /\ StepAt(t, "read_slice") # 0 /\ StepAt(t, "store_slice") # 0
         /\ StepAt(t, "read_slice") < StepAt(u, "append_response")
         /\ StepAt(u, "append_response") < StepAt(t, "store_slice")
         /\ StepAt(u, "store_slice") < StepAt(t, "store_slice") ) =>
         /\ ThreadText(u) \notin RaceResponses
         /\ appended[RaceSession][Len(appended[RaceSession])] = ThreadText(u)
    /\ ( /\ race.pc[t] = "done" /\ race.pc[u] = "done"
         /\ StepAt(t, "skip_slice") + StepAt(t, "store_slice") < StepAt(u, "count") ) =>
         /\ race.turns[u] = race.turns[t] + 1
         /\ {ThreadText(t), ThreadText(u)} \subseteq RaceResponses

\* Both calls have returned: the last two behaviors of the session carry the
\* same conversation_turns, and the response of the second thread, which was
\* appended, is not among the responses kept.
C36_Witness ==
  /\ \A t \in Threads : race.pc[t] = "done"
  /\ Len(RaceBehaviors) = ResponseCap + 2
  /\ RaceBehaviors[Len(RaceBehaviors)].conversation_turns =
       RaceBehaviors[Len(RaceBehaviors) - 1].conversation_turns
  /\ "hello" \notin RaceResponses
  /\ "hi" \in RaceResponses
  /\ appended[RaceSession][Len(appended[RaceSession])] = "hello"

\* C37: the probabilistic evaluation contains no suspension point, so the
\* evaluations of concurrent process_request tasks of one session on one event
\* loop are atomic with respect to each other, and at most one of them is
\* injected within any 30-second cooldown window.
C37_OneInjectionPerCooldownWindow ==
  /\ Cardinality({ k \in Tasks : tasks.pc[k] = "evaluating" }) <= 1
  /\ \A j \in Tasks : \A k \in Tasks \ {j} :
       (tasks.inject[j] /\ tasks.inject[k]) =>
         \/ tasks.current_time[j] - tasks.current_time[k] >= 30
         \/ tasks.current_time[k] - tasks.current_time[j] >= 30

\* Of three tasks of the session two were injected, 30 seconds apart; the one
\* evaluated in between, inside the cooldown, was not.
C37_Witness ==
  /\ \A k \in Tasks : tasks.pc[k] \in {"evaluated", "returned"}
  /\ tasks.inject["r1"] /\ tasks.inject["r3"] /\ ~tasks.inject["r2"]
  /\ tasks.current_time["r3"] - tasks.current_time["r1"] = 30
  /\ tasks.current_time["r2"] - tasks.current_time["r1"] = 15
  /\ session_states["s1"].failure_count = 2
  /\ session_states["s1"].message_count = 3

\* C38: when process_interaction degrades to the safe empty result because a
\* step after tracking raised, the tracked interaction is not rolled back: the
\* behavior and its response text stay in the history of the session, and the
\* next interaction of the session gets the next turn ordinal although the
\* degraded result reported behavior None.
C38_DegradedInteractionStaysTracked ==
  [][ \A s \in MonitorSessions, text \in MonitorTexts :
        /\ \A fault \in {"history", "detect"} :
             ProcessInteraction(s, text, fault, {}) =>
               LET before == Lookup(session_behaviors, s)
                   after == Lookup(session_behaviors', s)
                   kept == Lookup(session_responses', s)
               IN  /\ monitor_call'.result.behavior = NoBehavior
                   /\ Len(after) = Len(before) + 1
                   /\ after[Len(after)].conversation_turns = Len(before) + 1
                   /\ after[Len(after)].message_length = TextLength(text)
                   /\ kept # << >>
                   /\ kept[Len(kept)] = text
        /\ \A found \in SUBSET AnomalyTypes :
             ( /\ monitor_call.op = "process_interaction"
               /\ monitor_call.fault \in {"history", "detect"}
               /\ Len(Lookup(session_behaviors, s)) = monitor_call.behavior.conversation_turns
               /\ ProcessInteraction(s, text, "none", found) ) =>
               monitor_call'.result.behavior.conversation_turns =
                 monitor_call.behavior.conversation_turns + 1 ]_vars

\* The detection raised in the second interaction of a session: the result
\* reports no behavior, the history holds the behavior of the second turn.
C38_Witness ==
  /\ monitor_call.op = "process_interaction"
  /\ monitor_call.fault = "detect"
  /\ monitor_call.result.behavior = NoBehavior
  /\ Len(Lookup(session_behaviors, "s1")) = 2
  /\ session_behaviors["s1"][2] = monitor_call.behavior
  /\ session_behaviors["s1"][2].conversation_turns = 2
  /\ Len(Lookup(session_responses, "s1")) = 2

\* How many times a string occurs in the recommendations of the call.
TimesRecommended(text) ==
  Cardinality({i \in 1..Len(anomaly_call.recommendations) :
                 anomaly_call.recommendations[i] = text})

FiredTypes == {anomaly_call.detected[i] : i \in 1..Len(anomaly_call.detected)}

\* One string for each type that fired, the note on collecting more data
\* exactly when confidence is below 0.5, the note on no anomalies exactly when
\* none fired and confidence is at least 0.5.
TemplatedAndNotes ==
  /\ \A t \in AnomalyTypes :
       TimesRecommended(RecommendationFor(t)) = IF t \in FiredTypes THEN 1 ELSE 0
  /\ TimesRecommended(LowConfidenceNote) =
       IF anomaly_call.confidence < LowConfidenceThreshold THEN 1 ELSE 0
  /\ TimesRecommended(NoAnomaliesNote) =
       IF FiredTypes = {} /\ anomaly_call.confidence >= LowConfidenceThreshold
       THEN 1 ELSE 0
  /\ anomaly_call.recommendations # << >>

\* C39 as stated: the recommendations of a result are one templated string
\* for each anomaly type that fired, the note on collecting more data exactly
\* when confidence is below 0.5, the note on no anomalies exactly when none
\* fired and confidence is at least 0.5, and nothing else; never empty.
C39_RecommendationsAndNothingElse ==
  anomaly_call.done =>
    /\ TemplatedAndNotes
    /\ Len(anomaly_call.recommendations) =
         Cardinality(FiredTypes) + TimesRecommended(LowConfidenceNote)
           + TimesRecommended(NoAnomaliesNote)

\* C39: the recommendations of a result are the note on a high anomaly score
\* exactly when overall_anomaly_score is at least 0.8, one templated string
\* for each anomaly type that fired, the note on collecting more data exactly
\* when confidence is below 0.5, the note on no anomalies exactly when none
\* fired and confidence is at least 0.5, and nothing else; never empty.
C39_RecommendationsWithHighScoreNote ==
  anomaly_call.done =>
    /\ TemplatedAndNotes
    /\ TimesRecommended(HighScoreNote) =
         IF anomaly_call.overall >= HighScoreThreshold THEN 1 ELSE 0
    /\ Len(anomaly_call.recommendations) =
         Cardinality(FiredTypes) + TimesRecommended(LowConfidenceNote)
           + TimesRecommended(NoAnomaliesNote) + TimesRecommended(HighScoreNote)

\* A result in which a response loop fired with score 1.0 on one fresh
\* behavior: the high-score note, the loop string and the low-confidence note.
C39_Witness ==
  /\ anomaly_call.done
  /\ DOMAIN anomaly_call.scores = {"response_loop"}
  /\ anomaly_call.overall = Unit
  /\ anomaly_call.confidence < LowConfidenceThreshold
  /\ anomaly_call.recommendations =
       << HighScoreNote, RecommendationFor("response_loop"), LowConfidenceNote >>

\* C40: for every non-empty list of behaviors, analyze_conversation_flow
\* returns a flow_consistency_score from 0 to 1 and an engagement_level from
\* 0 to 1.
C40_FlowScoresWithinUnitInterval ==
  (flow_call.done /\ flow_call.behaviors # << >>) =>
    /\ flow_call.result.flow_consistency_score \in 0..Unit
    /\ flow_call.result.engagement_level \in 0..Unit

====
